---- MODULE Spec2Model ----
(***************************************************************************)
(* A model of sec_pipeline.transformation.xbrl_parser.XBRLParserService:   *)
(* parse_xbrl_from_url, the aggregator _extract_all_data, the extraction   *)
(* steps it runs in order, and the two recursive tree walks.               *)
(*                                                                         *)
(* Representation.  A Python dict is a function whose DOMAIN is its key    *)
(* set.  Identifiers that the code only copies and compares (qnames,       *)
(* context ids, unit ids, measures) are TLA+ strings.  Strings the code    *)
(* looks into (role URIs, role definitions, fact values) are sequences of  *)
(* one-character strings, so that lower(), substring tests, sorting and    *)
(* the role-definition grammar are computed, not assumed.  None is the     *)
(* identifier None, the one-element sequence NoneStr among character       *)
(* strings and the record NoneObj among objects; no value of a document    *)
(* equals any of them.                                                     *)
(***************************************************************************)
EXTENDS Integers, Sequences, FiniteSets, TLC

VARIABLES
    model_xbrl, \* the provider's object graph (what modelManager.load returns); never written
    pc,         \* position in parse_xbrl_from_url / _extract_all_data
    result,     \* the values of the dict literal of _extract_all_data evaluated so far
    walk,       \* locals of the running relationship extraction (roots, roles, relationships)
    stack,      \* call stack of _traverse_presentation_tree / _traverse_domain_member_tree
    outcome,    \* how parse_xbrl_from_url ends: "running", "returned", "raised"
    closed,     \* number of model_xbrl.close() calls
    ret,        \* what the caller of parse_xbrl_from_url receives: <<>> or <<the Document>>
    statement_type_mappings, \* the module-level cache of sec_pipeline.config
    file_reads, \* number of reads of statement_type_mappings.json in this process
    workers     \* the threads inside load_statement_type_mappings: where each stands

vars == <<model_xbrl, pc, result, walk, stack, outcome, closed, ret, statement_type_mappings,
          file_reads, workers>>

None == "<None>"
NoneStr == <<"<None>">>
\* None where the value would be an object (a qname, a concept, a dimension value)
NoneObj == [none |-> TRUE]
\* None (or an empty tuple) where the value would be an entity identifier pair
NoEntityIdentifier == <<>>

\* the dict a function builds: no key yet
EmptyDict == [k \in {} |-> None]

\* the dict literal of _extract_all_data with one more value evaluated
EvaluatedWithoutSummary(key, value) ==
    IF key = "summary" THEN result ELSE result @@ (key :> value)
Evaluated(key, value) == result @@ (key :> value)

\* float(x) if x else None, of a relationship's order or weight (0 is falsy)
OrderOrNone(order) == IF order \in {None, "0.0"} THEN None ELSE order

(***************************************************************************)
(* Character strings                                                       *)
(***************************************************************************)
UpperCase == <<"A","B","C","D","E","F","G","H","I","J","K","L","M",
               "N","O","P","Q","R","S","T","U","V","W","X","Y","Z">>
LowerCase == <<"a","b","c","d","e","f","g","h","i","j","k","l","m",
               "n","o","p","q","r","s","t","u","v","w","x","y","z">>
Digits == {"0","1","2","3","4","5","6","7","8","9"}
\* the characters of the model's strings in code-point order
Ascii == <<" ", "&", "-", "/", "0","1","2","3","4","5","6","7","8","9", ":", ";", "<", ">">>
         \o UpperCase \o LowerCase

CodePoint(c) == CHOOSE i \in 1..Len(Ascii) : Ascii[i] = c

\* str.lower() on one character
LowerChar(c) ==
    IF \E i \in 1..Len(UpperCase) : UpperCase[i] = c
    THEN LowerCase[CHOOSE i \in 1..Len(UpperCase) : UpperCase[i] = c]
    ELSE c

\* str.lower()
Lower(s) == [i \in 1..Len(s) |-> LowerChar(s[i])]

\* Python's  sub in s  for strings
Contains(s, sub) ==
    \E i \in 0..(Len(s) - Len(sub)) :
        \A j \in 1..Len(sub) : s[i + j] = sub[j]

\* Python's  a < b  for strings: code-point lexicographic order
StrLess(a, b) ==
    \E k \in 1..Len(b) :
        /\ \A j \in 1..(k - 1) : j <= Len(a) /\ a[j] = b[j]
        /\ k - 1 <= Len(a)
        /\ (k > Len(a) \/ CodePoint(a[k]) < CodePoint(b[k]))

\* sorted(S) for a finite set of strings
RECURSIVE SortedStrs(_)
SortedStrs(S) ==
    IF S = {} THEN <<>>
    ELSE LET m == CHOOSE x \in S : \A y \in S \ {x} : StrLess(x, y)
         IN  <<m>> \o SortedStrs(S \ {m})

\* str(x) of an identifier or of None
Str(x) == IF x = None THEN "None" ELSE x

\* the index of the first element of s equal to c, 0 when there is none
FirstIndex(s, c) ==
    IF \E i \in 1..Len(s) : s[i] = c
    THEN CHOOSE i \in 1..Len(s) : s[i] = c /\ \A j \in 1..(i - 1) : s[j] # c
    ELSE 0

StartsWith(s, prefix) ==
    Len(s) >= Len(prefix) /\ \A j \in 1..Len(prefix) : s[j] = prefix[j]

\* the character references html.unescape decodes, of those the model's strings use
Entities == << <<<<"&","a","m","p",";">>, "&">>,
               <<<<"&","l","t",";">>, "<">>,
               <<<<"&","g","t",";">>, ">">> >>

\* html.unescape(text)
RECURSIVE HtmlUnescape(_)
HtmlUnescape(text) ==
    IF text = <<>> THEN <<>>
    ELSE IF \E e \in 1..Len(Entities) : StartsWith(text, Entities[e][1])
    THEN LET e == CHOOSE x \in 1..Len(Entities) : StartsWith(text, Entities[x][1])
         IN  <<Entities[e][2]>> \o HtmlUnescape(SubSeq(text, Len(Entities[e][1]) + 1, Len(text)))
    ELSE <<Head(text)>> \o HtmlUnescape(Tail(text))

\* re.sub(r'<[^>]+>', '', text): a "<", one or more characters that are not ">", a ">"
RECURSIVE RemoveTags(_)
RemoveTags(text) ==
    IF text = <<>> THEN <<>>
    ELSE LET close == FirstIndex(Tail(text), ">")
         IN  IF Head(text) = "<" /\ close >= 2
             THEN RemoveTags(SubSeq(text, close + 2, Len(text)))
             ELSE <<Head(text)>> \o RemoveTags(Tail(text))

\* re.sub(r'\s+', ' ', text)
RECURSIVE CollapseSpaces(_)
CollapseSpaces(text) ==
    IF text = <<>> THEN <<>>
    ELSE IF Head(text) = " " /\ Len(text) >= 2 /\ text[2] = " "
    THEN CollapseSpaces(Tail(text))
    ELSE <<Head(text)>> \o CollapseSpaces(Tail(text))

\* str.strip()
RECURSIVE Strip(_)
Strip(text) ==
    IF text = <<>> THEN <<>>
    ELSE IF Head(text) = " " THEN Strip(Tail(text))
    ELSE IF text[Len(text)] = " " THEN Strip(SubSeq(text, 1, Len(text) - 1))
    ELSE text

\* strip_html(text), for a str
strip_html(text) == Strip(CollapseSpaces(RemoveTags(HtmlUnescape(text))))

(***************************************************************************)
(* Relationship sets (arelle ModelRelationshipSet, as the code reads them) *)
(***************************************************************************)
Parenthetical == <<"p","a","r","e","n","t","h","e","t","i","c","a","l">>

\* role URIs of the model
RoleBS == <<"r","/","B","S">>
RoleIS == <<"r","/","I","S">>
RoleBSP == <<"r","/","B","S">> \o <<"P","a","r","e","n","t","h","e","t","i","c","a","l">>
RoleISP == <<"r","/","I","S">> \o <<"P","A","R","E","N","T","H","E","T","I","C","A","L">>
RoleCFp == <<"r","/","C","F">> \o Parenthetical
RoleDoc == <<"r","/","D","o","c">>
RoleNote == <<"r","/","N","o","t","e">>

\* rel_set.fromModelObject(concept): the relationships leaving concept, in set order
fromModelObject(rel_set, concept) ==
    SelectSeq(rel_set, LAMBDA rel : rel.fromModelObject = concept)

\* the from-concepts in order of first appearance
RECURSIVE FromConcepts(_, _)
FromConcepts(rel_set, seen) ==
    IF rel_set = <<>> THEN <<>>
    ELSE LET c == Head(rel_set).fromModelObject
         IN  IF c \in seen THEN FromConcepts(Tail(rel_set), seen)
             ELSE <<c>> \o FromConcepts(Tail(rel_set), seen \cup {c})

\* rel_set.rootConcepts: the concepts with an outgoing and no incoming relationship
RootsOrFirstConcept(rel_set) ==
    LET roots == SelectSeq(FromConcepts(rel_set, {}),
                           LAMBDA c : \A i \in 1..Len(rel_set) : rel_set[i].toModelObject # c)
    IN  IF roots = <<>> /\ rel_set # <<>> THEN <<rel_set[1].fromModelObject>> ELSE roots
EveryFromConcept(rel_set) == FromConcepts(rel_set, {})
rootConcepts(rel_set) ==
    SelectSeq(FromConcepts(rel_set, {}),
              LAMBDA c : \A i \in 1..Len(rel_set) : rel_set[i].toModelObject # c)

(***************************************************************************)
(* _extract_document_info, _extract_contexts, _extract_units               *)
(***************************************************************************)
\* x[1] / x[0] of an entity identifier raise TypeError when it is None
document_info_raises(m) ==
    m.contexts # <<>> /\ m.contexts[1].entityIdentifier = NoEntityIdentifier

_extract_document_info(m) ==
    [document_type |-> m.document_type,
     entity |-> IF m.contexts # <<>>
                THEN [identifier |-> m.contexts[1].entityIdentifier[2],
                      scheme |-> m.contexts[1].entityIdentifier[1]]
                ELSE None]

\* str(d) if d else None, of a datetime (the model holds a datetime as its text)
StrOrNone(d) == IF d = None THEN None ELSE d

\* the period dict built from a context's instant / start-end / forever markers
PeriodOf(context) ==
    IF context.isInstantPeriod
    THEN [type |-> "instant", instant |-> StrOrNone(context.instantDatetime)]
    ELSE IF context.isStartEndPeriod
    THEN [type |-> "duration", start_date |-> StrOrNone(context.startDatetime),
          end_date |-> StrOrNone(context.endDatetime)]
    ELSE IF context.isForeverPeriod
    THEN [type |-> "forever"]
    ELSE EmptyDict

\* hasattr(dim_value, name): None has neither attribute
HasAttr(dim_value, name) == dim_value # NoneObj /\ name \in dim_value.attrs

\* one element of a context record's dimensions list
ContextDimension(dim) ==
    LET dim_data == [dimension |-> Str(dim.qname),
                     type |-> IF HasAttr(dim.value, "memberQname") THEN "explicit" ELSE "typed"]
    IN  IF HasAttr(dim.value, "memberQname")
        THEN dim_data @@ ("value" :> Str(dim.value.memberQname))
        ELSE IF HasAttr(dim.value, "typedMember")
        THEN dim_data @@ ("value" :> Str(dim.value.typedMember))
        ELSE dim_data

\* the record of one context
ContextRecord(context) ==
    LET context_data == [id |-> context.id,
                         entity |-> [identifier |-> context.entityIdentifier[2],
                                     scheme |-> context.entityIdentifier[1]],
                         period |-> PeriodOf(context)]
        dimensions == [i \in 1..Len(context.qnameDims) |-> ContextDimension(context.qnameDims[i])]
    IN  IF dimensions # <<>> THEN context_data @@ ("dimensions" :> dimensions)
        ELSE context_data

contexts_raises(m) == \E i \in 1..Len(m.contexts) : m.contexts[i].entityIdentifier = NoEntityIdentifier

_extract_contexts(m) == [i \in 1..Len(m.contexts) |-> ContextRecord(m.contexts[i])]

\* the branch  len(unit.measures) == 2 and unit.measures[1]
IsDivide(measures) == Len(measures) = 2 /\ measures[2] # <<>>

FirstOrNone(measures) == IF measures # <<>> THEN measures[1] ELSE None

\* the record of one unit
UnitRecord(unit) ==
    IF ~unit.has_measures
    THEN [id |-> unit.id, measures |-> <<>>]
    ELSE IF IsDivide(unit.measures)
    THEN [id |-> unit.id,
          numerator |-> unit.measures[1],
          denominator |-> unit.measures[2],
          unit_type |-> "divide",
          numerator_measure |-> FirstOrNone(unit.measures[1]),
          denominator_measure |-> FirstOrNone(unit.measures[2])]
    ELSE LET numerator == IF unit.measures # <<>> THEN unit.measures[1] ELSE <<>>
         IN  [id |-> unit.id,
              measures |-> numerator,
              unit_type |-> "simple",
              measure |-> FirstOrNone(numerator)]

_extract_units(m) == [i \in 1..Len(m.units) |-> UnitRecord(m.units[i])]

(***************************************************************************)
(* _extract_facts                                                          *)
(***************************************************************************)
\* the dict with key k added when present holds
With(d, present, k, v) == IF present THEN d @@ (k :> v) ELSE d

\* one element of a fact record's dimensions list; entries with a None axis or a
\* None value are skipped before this is built
FactDimension(dim) ==
    LET dim_data == [axis |-> Str(dim.qname),
                     axis_name |-> dim.localName,
                     type |-> IF HasAttr(dim.value, "memberQname") THEN "explicit" ELSE "typed"]
    IN  IF HasAttr(dim.value, "memberQname") /\ dim.value.memberQname # None
        THEN With(dim_data @@ [member |-> dim.value.memberQname,
                               member_name |-> dim.value.memberLocalName],
                  dim.value.member_label \notin {None, "raises", ""},
                  "member_label", dim.value.member_label)
        ELSE IF HasAttr(dim.value, "typedMember")
        THEN dim_data @@ ("value" :> Str(dim.value.typedMember))
        ELSE dim_data

KeptDimensions(qnameDims) ==
    SelectSeq(qnameDims, LAMBDA dim : dim.qname # None /\ dim.value # NoneObj)

FactDimensions(context) ==
    LET kept == KeptDimensions(context.qnameDims)
    IN  [i \in 1..Len(kept) |-> FactDimension(kept[i])]

\* the value stored: fact.value, HTML-stripped when it is a str
FactValue(value) == IF value = NoneStr THEN NoneStr ELSE strip_html(value)

\* the context object of a fact: model_xbrl.contexts.get(fact.contextID)
ContextOf(m, fact) ==
    IF \E i \in 1..Len(m.contexts) : m.contexts[i].id = fact.contextID
    THEN m.contexts[CHOOSE i \in 1..Len(m.contexts) : m.contexts[i].id = fact.contextID]
    ELSE NoneObj

HasContext(m, fact) == \E i \in 1..Len(m.contexts) : m.contexts[i].id = fact.contextID

\* the period_info dict _extract_facts builds from the fact's context
FactPeriodWithoutForever(context) ==
    IF context.isInstantPeriod
    THEN [type |-> "instant", instant |-> StrOrNone(context.instantDatetime)]
    ELSE IF context.isStartEndPeriod
    THEN [type |-> "duration", start_date |-> StrOrNone(context.startDatetime),
          end_date |-> StrOrNone(context.endDatetime)]
    ELSE EmptyDict
FactPeriodOf(context) ==
    IF context.isInstantPeriod
    THEN [type |-> "instant", instant |-> StrOrNone(context.instantDatetime)]
    ELSE IF context.isStartEndPeriod
    THEN [type |-> "duration", start_date |-> StrOrNone(context.startDatetime),
          end_date |-> StrOrNone(context.endDatetime)]
    ELSE IF context.isForeverPeriod
    THEN [type |-> "forever"]
    ELSE EmptyDict

\* the keys added from the fact's context: period, entity, dimensions
WithContext(fact_data, context) ==
    LET d1 == fact_data @@ ("period" :> FactPeriodOf(context))
        d2 == IF context.entityIdentifier # NoEntityIdentifier
              THEN d1 @@ [entity_scheme |-> context.entityIdentifier[1],
                          entity_identifier |-> context.entityIdentifier[2]]
              ELSE d1
    IN  With(d2, FactDimensions(context) # <<>>, "dimensions", FactDimensions(context))

\* the keys added from the fact's concept: label, then terse_label; a label lookup
\* that raises ends the block and keeps what was set before it
WithLabels(fact_data, concept) ==
    IF concept.standard_label = <<"raises">> THEN fact_data
    ELSE LET d1 == With(fact_data, concept.standard_label \notin {NoneStr, <<>>},
                        "label", HtmlUnescape(concept.standard_label))
         IN  IF concept.terse_label = <<"raises">> THEN d1
             ELSE With(d1, concept.terse_label \notin {NoneStr, <<>>}
                           /\ concept.terse_label # concept.standard_label,
                       "terse_label", HtmlUnescape(concept.terse_label))

\* the record of one fact whose qname is present (sourceline 0 stands for a missing
\* or zero source line: both are falsy)
FactRecord(m, fact) ==
    LET d0 == [concept |-> fact.qname.str,
               concept_name |-> fact.qname.localName,
               context_ref |-> fact.contextID,
               value |-> FactValue(fact.value),
               unit_ref |-> IF fact.unitID \in {None, ""} THEN None ELSE fact.unitID]
        d1 == IF HasContext(m, fact) THEN WithContext(d0, ContextOf(m, fact)) ELSE d0
        d2 == IF fact.concept # NoneObj THEN WithLabels(d1, fact.concept) ELSE d1
        d3 == d2 @@ ("is_numeric" :> fact.isNumeric)
        d4 == IF fact.isNumeric
              THEN d3 @@ [decimals |-> fact.decimals, precision |-> fact.precision]
              ELSE d3
        d5 == With(d4, fact.concept # NoneObj /\ fact.concept.typeQname # None,
                   "data_type", fact.concept.typeQname)
        d6 == With(d5, fact.id \notin {None, ""}, "html_anchor_id", fact.id)
        d7 == With(d6, fact.sourceline # 0, "source_line", fact.sourceline)
    IN  With(d7, fact.basename # None, "source_file", fact.basename)

\* fact.qname.localName raises AttributeError when the fact has no qname; nothing
\* in _extract_facts catches it
facts_raises(m) == \E i \in 1..Len(m.facts) : m.facts[i].qname = NoneObj

_extract_facts(m) == [i \in 1..Len(m.facts) |-> FactRecord(m, m.facts[i])]

(***************************************************************************)
(* _generate_summary                                                       *)
(***************************************************************************)
\* sorted(S) for a finite set of identifiers, given the order they sort in
RECURSIVE SortedBy(_, _)
SortedBy(S, order) ==
    IF order = <<>> THEN <<>>
    ELSE (IF Head(order) \in S THEN <<Head(order)>> ELSE <<>>) \o SortedBy(S, Tail(order))

\* the namespace prefixes of the model's qnames, in code-point order
PrefixOrder == <<"dei", "msft", "us-gaap">>

\* namespaces is a set that is sorted when the summary is built
SummaryWithPrefixesAsSeen(m) ==
    LET named == SelectSeq(m.facts, LAMBDA fact : /\ fact.qname.namespaceURI \notin {None, ""}
                                                  /\ fact.qname.prefix \notin {None, ""})
    IN  [total_facts |-> Len(m.facts),
         total_contexts |-> Len(m.contexts),
         total_units |-> Len(m.units),
         namespaces |-> [i \in 1..Len(named) |-> named[i].qname.prefix]]
_generate_summary(m) ==
    LET namespaces == {m.facts[i].qname.prefix :
                          i \in {j \in 1..Len(m.facts) :
                                    /\ m.facts[j].qname.namespaceURI \notin {None, ""}
                                    /\ m.facts[j].qname.prefix \notin {None, ""}}}
    IN  [total_facts |-> Len(m.facts),
         total_contexts |-> Len(m.contexts),
         total_units |-> Len(m.units),
         namespaces |-> SortedBy(namespaces, PrefixOrder)]

(***************************************************************************)
(* _extract_concepts, _extract_labels                                      *)
(***************************************************************************)
\* html.unescape(label) if the lookup returned a non-empty label, else None; a
\* lookup that raises leaves None
LabelOrNone(label) ==
    IF label \in {NoneStr, <<>>, <<"raises">>} THEN NoneStr ELSE HtmlUnescape(label)

\* the record of one concept whose qname is present
ConceptRecord(concept) ==
    [qname |-> concept.qname.str,
     local_name |-> concept.qname.localName,
     namespace_uri |-> concept.qname.namespaceURI,
     prefix |-> concept.qname.prefix,
     standard_label |-> LabelOrNone(concept.standard_label),
     terse_label |-> LabelOrNone(concept.terse_label),
     verbose_label |-> LabelOrNone(concept.verbose_label),
     documentation |-> LabelOrNone(concept.documentation),
     data_type |-> concept.typeQname,
     base_xsd_type |-> concept.baseXsdType,
     is_numeric |-> concept.isNumeric,
     is_monetary |-> concept.isMonetary,
     balance |-> concept.balance,
     period_type |-> concept.periodType,
     is_abstract |-> concept.isAbstract,
     substitution_group |-> concept.substitutionGroupQname]

\* a concept whose qname cannot be read raises inside the try and is skipped
_extract_concepts(m) ==
    LET kept == SelectSeq(m.qnameConcepts, LAMBDA concept : concept.qname # NoneObj)
    IN  [i \in 1..Len(kept) |-> ConceptRecord(kept[i])]

\* the label records of one concept: its label resources with a non-empty text
LabelRecords(concept) ==
    LET kept == SelectSeq(concept.label_rels,
                          LAMBDA res : res # NoneObj /\ res.text \notin {NoneStr, <<>>})
    IN  [i \in 1..Len(kept) |->
            [concept_qname |-> concept.key,
             label_role |-> kept[i].role,
             label_text |-> strip_html(kept[i].text),
             language |-> IF kept[i].xmlLang \in {None, ""} THEN "en-US" ELSE kept[i].xmlLang]]

RECURSIVE LabelsFrom(_, _)
LabelsFrom(concepts, i) ==
    IF i > Len(concepts) THEN <<>>
    ELSE LabelRecords(concepts[i]) \o LabelsFrom(concepts, i + 1)

_extract_labels(m) == LabelsFrom(m.qnameConcepts, 1)

(***************************************************************************)
(* sec_pipeline.config: parse_role_definition, load_statement_type_mappings *)
(***************************************************************************)
RECURSIVE LeadingSpaces(_)
LeadingSpaces(text) ==
    IF text # <<>> /\ Head(text) = " " THEN 1 + LeadingSpaces(Tail(text)) ELSE 0

RECURSIVE LeadingDigits(_)
LeadingDigits(text) ==
    IF text # <<>> /\ Head(text) \in Digits THEN 1 + LeadingDigits(Tail(text)) ELSE 0

From(text, i) == SubSeq(text, i, Len(text))

\* the ways  \s*(.+?)\s*-\s*(.+)$  matches rest: <<s, g>> with s leading spaces
\* skipped and a first group of g characters, followed by spaces, a dash and at
\* least one more character
GroupMatches(rest) ==
    {sg \in (0..LeadingSpaces(rest)) \X (1..Len(rest)) :
        LET dash == sg[1] + sg[2] + LeadingSpaces(From(rest, sg[1] + sg[2] + 1)) + 1
        IN  dash < Len(rest) /\ rest[dash] = "-"}

\* parse_role_definition(definition): <<category, description>>, or <<>> for None.
\* The regular expression is  ^\d+\s*-\s*(.+?)\s*-\s*(.+)$ : \s* is greedy, the
\* first group lazy, so the match taken skips the most spaces and then has the
\* shortest first group; both groups are stripped.
parse_role_definition(definition) ==
    LET k == LeadingDigits(definition)
        a == k + LeadingSpaces(From(definition, k + 1)) + 1
        rest == From(definition, a + 1)
    IN  IF k = 0 \/ a > Len(definition) \/ definition[a] # "-" \/ GroupMatches(rest) = {}
        THEN <<>>
        ELSE LET s == CHOOSE x \in 0..LeadingSpaces(rest) :
                        /\ \E sg \in GroupMatches(rest) : sg[1] = x
                        /\ \A sg \in GroupMatches(rest) : sg[1] <= x
                 g == CHOOSE x \in 1..Len(rest) :
                        /\ <<s, x>> \in GroupMatches(rest)
                        /\ \A sg \in GroupMatches(rest) : sg[1] = s => sg[2] >= x
                 dash == s + g + LeadingSpaces(From(rest, s + g + 1)) + 1
             IN  <<Strip(SubSeq(rest, s + 1, s + g)), Strip(From(rest, dash + 1))>>

\* the "mappings" object of statement_type_mappings.json: description -> statement type
MappingFile ==
    (<<"B","S">> :> "Balance Sheet") @@ (<<"I","S">> :> "Income Statement")

(***************************************************************************)
(* _extract_statement_roles                                                *)
(***************************************************************************)
\* the set of role URIs with a presentation relationship
ActiveRoles(m) == {m.parentChild[i].linkrole : i \in 1..Len(m.parentChild)}

\* "parenthetical" in role_uri.lower()
CaseSensitiveParenthetical(role_uri) == Contains(role_uri, Parenthetical)
IsParenthetical(role_uri) == Contains(Lower(role_uri), Parenthetical)

\* role_type.definition of the first role type, None without role types
DefinitionOf(m, role_uri) ==
    IF role_uri \in DOMAIN m.roleTypes /\ m.roleTypes[role_uri] # <<>>
    THEN m.roleTypes[role_uri][1].definition
    ELSE NoneStr

\* role_type.genLabel(lang="en-US", strip=True), None when it raises or without role types
GenLabelOf(m, role_uri) ==
    IF role_uri \in DOMAIN m.roleTypes /\ m.roleTypes[role_uri] # <<>>
       /\ m.roleTypes[role_uri][1].genLabel # <<"raises">>
    THEN m.roleTypes[role_uri][1].genLabel
    ELSE NoneStr

\* label or definition or role_uri
StatementName(m, role_uri) ==
    IF GenLabelOf(m, role_uri) \notin {NoneStr, <<>>} THEN GenLabelOf(m, role_uri)
    ELSE IF DefinitionOf(m, role_uri) \notin {NoneStr, <<>>} THEN DefinitionOf(m, role_uri)
    ELSE role_uri

\* mappings.get(role_uri, "Unclassified")
StatementTypeWithoutDefault(mappings, role_uri) ==
    IF role_uri \in DOMAIN mappings THEN mappings[role_uri] ELSE None
StatementType(mappings, role_uri) ==
    IF role_uri \in DOMAIN mappings THEN mappings[role_uri] ELSE "Unclassified"

\* the loop over sorted(active_roles), from the roles left and the next display order
RECURSIVE StatementRolesCountingSkipped(_, _, _, _)
StatementRolesCountingSkipped(m, mappings, roles, display_order) ==
    IF roles = <<>> THEN <<>>
    ELSE IF IsParenthetical(Head(roles))
    THEN StatementRolesCountingSkipped(m, mappings, Tail(roles), display_order + 1)
    ELSE <<[role_uri |-> Head(roles),
            statement_type |-> StatementType(mappings, Head(roles)),
            statement_name |-> StatementName(m, Head(roles)),
            display_order |-> display_order]>>
         \o StatementRolesCountingSkipped(m, mappings, Tail(roles), display_order + 1)
RECURSIVE StatementRolesFrom(_, _, _, _)
StatementRolesFrom(m, mappings, roles, display_order) ==
    IF roles = <<>> THEN <<>>
    ELSE IF IsParenthetical(Head(roles))
    THEN StatementRolesFrom(m, mappings, Tail(roles), display_order)
    ELSE <<[role_uri |-> Head(roles),
            statement_type |-> StatementType(mappings, Head(roles)),
            statement_name |-> StatementName(m, Head(roles)),
            display_order |-> display_order]>>
         \o StatementRolesFrom(m, mappings, Tail(roles), display_order + 1)

_extract_statement_roles(m, mappings) ==
    StatementRolesFrom(m, mappings, SortedStrs(ActiveRoles(m)), 1)

(***************************************************************************)
(* _extract_calculation_relationships                                      *)
(***************************************************************************)
CalculationRecord(rel) ==
    [total_concept |-> rel.fromModelObject,
     component_concept |-> rel.toModelObject,
     weight |-> OrderOrNone(rel.weight),
     order |-> OrderOrNone(rel.order),
     role_uri |-> rel.linkrole,
     priority |-> rel.priority]

\* a relationship with a missing endpoint raises inside the try and is skipped
_extract_calculation_relationships(m) ==
    LET all_rels == m.summationItem \o m.summationItem11
        kept == SelectSeq(all_rels, LAMBDA rel : rel.fromModelObject # None /\ rel.toModelObject # None)
    IN  [i \in 1..Len(kept) |-> CalculationRecord(kept[i])]

\* the keys of the dict literal of _extract_all_data, in the order their values
\* are evaluated
KeysInOrder ==
    <<"document_info", "contexts", "units", "facts", "concepts", "labels", "statement_roles",
      "presentation_relationships", "calculation_relationships", "definition_relationships",
      "summary">>

\* where control goes when the value of key step has been evaluated: to the next
\* key of the literal, and to the return statement after the last one
AfterWithFactsBeforeUnits(step) ==
    LET order == <<"document_info", "contexts", "facts", "units", "concepts", "labels",
                   "statement_roles", "presentation_relationships",
                   "calculation_relationships", "definition_relationships", "summary">>
        i == FirstIndex(order, step)
    IN  IF i < Len(order) THEN order[i + 1] ELSE "return"
After(step) ==
    LET i == FirstIndex(KeysInOrder, step)
    IN  IF i < Len(KeysInOrder) THEN KeysInOrder[i + 1] ELSE "return"

\* the model stops descending at this many nested calls; the walks of the model's
\* graphs stay below it
MaxDepth == 6

(***************************************************************************)
(* _traverse_presentation_tree and _traverse_domain_member_tree.           *)
(* A frame is one activation: its arguments (concept, role_uri, depth,     *)
(* visited), its locals (child_rels still to iterate, results) and where   *)
(* it stands: "enter" before the cycle test, "loop" inside the for loop.   *)
(* role_uri is NoneStr in a presentation frame.                            *)
(***************************************************************************)
Frame(concept, role_uri, depth, visited) ==
    [concept |-> concept, role_uri |-> role_uri, depth |-> depth,
     visited |-> visited, child_rels |-> <<>>, results |-> <<>>, at |-> "enter"]

Top == stack[Len(stack)]
Below == SubSeq(stack, 1, Len(stack) - 1)

\* the record appended for one parent-child relationship
PresentationRecordAtParentDepth(concept, rel, depth) ==
    [parent_concept |-> concept,
     child_concept |-> rel.toModelObject,
     depth |-> depth,
     order |-> OrderOrNone(rel.order),
     preferred_label_role |-> rel.preferredLabel,
     role_uri |-> rel.linkrole,
     priority |-> rel.priority]
PresentationRecord(concept, rel, depth) ==
    [parent_concept |-> concept,
     child_concept |-> rel.toModelObject,
     depth |-> depth + 1,
     order |-> OrderOrNone(rel.order),
     preferred_label_role |-> rel.preferredLabel,
     role_uri |-> rel.linkrole,
     priority |-> rel.priority]

\* the record appended for one domain-member relationship
DomainMemberRecord(concept, rel, role_uri, depth) ==
    [from_concept |-> concept,
     to_concept |-> rel.toModelObject,
     relationship_type |-> "domain-member",
     role_uri |-> role_uri,
     order |-> OrderOrNone(rel.order),
     depth |-> depth + 1,
     priority |-> rel.priority]

\* the cycle test on entry: the concept is already on this path
NeverVisited(concept_key, visited) == FALSE
AlreadyVisited(concept_key, visited) == concept_key \in visited

\* the caller's visited set after the recursive call returns: the callee worked on
\* visited.copy(), so the caller's set is what it was
VisitedSharedWithCallee(caller_visited, callee_visited) == callee_visited
VisitedAfterCall(caller_visited, callee_visited) == caller_visited

\* if concept_key in visited: return []
TraverseCycle ==
    /\ pc \in {"presentation_relationships", "definition_relationships"}
    /\ stack # <<>>
    /\ Top.at = "enter"
    /\ AlreadyVisited(Top.concept, Top.visited)
    /\ stack' = IF Below = <<>> THEN <<>>
                ELSE [Below EXCEPT ![Len(Below)].visited =
                          VisitedAfterCall(@, Top.visited)]
    /\ UNCHANGED <<model_xbrl, pc, result, walk, outcome, closed, ret, statement_type_mappings, file_reads, workers>>

\* visited.add(concept_key); results = []; child_rels = rel_set.fromModelObject(concept)
TraverseEnter ==
    /\ pc \in {"presentation_relationships", "definition_relationships"}
    /\ stack # <<>>
    /\ Top.at = "enter"
    /\ ~AlreadyVisited(Top.concept, Top.visited)
    /\ stack' = [stack EXCEPT ![Len(stack)] =
                    [@ EXCEPT !.visited = @ \cup {Top.concept},
                              !.child_rels = fromModelObject(
                                  IF pc = "presentation_relationships"
                                  THEN model_xbrl.parentChild
                                  ELSE model_xbrl.domainMember, Top.concept),
                              !.at = "loop"]]
    /\ UNCHANGED <<model_xbrl, pc, result, walk, outcome, closed, ret, statement_type_mappings, file_reads, workers>>

\* one iteration of  for rel in child_rels  of _traverse_presentation_tree:
\* record the relationship, then call the walk on the child with depth + 1 and
\* visited.copy()
PresentationStep ==
    /\ pc = "presentation_relationships"
    /\ stack # <<>>
    /\ Top.at = "loop"
    /\ Top.child_rels # <<>>
    /\ Head(Top.child_rels).toModelObject # None
    /\ Len(stack) < MaxDepth
    /\ LET rel == Head(Top.child_rels)
           me == [Top EXCEPT !.child_rels = Tail(@),
                             !.results = Append(@, PresentationRecord(Top.concept, rel, Top.depth))]
       IN  stack' = Append(Append(Below, me),
                           Frame(rel.toModelObject, NoneStr, Top.depth + 1, Top.visited))
    /\ UNCHANGED <<model_xbrl, pc, result, walk, outcome, closed, ret, statement_type_mappings, file_reads, workers>>

\* rel.linkrole != role_uri: the relationship belongs to another role than the
\* one being walked
NoRoleIsOther(rel, role_uri) == FALSE
OtherRole(rel, role_uri) == rel.linkrole # role_uri

\* one iteration of the loop of _traverse_domain_member_tree on a relationship of
\* the walked role
DomainMemberStep ==
    /\ pc = "definition_relationships"
    /\ stack # <<>>
    /\ Top.at = "loop"
    /\ Top.child_rels # <<>>
    /\ ~OtherRole(Head(Top.child_rels), Top.role_uri)
    /\ Head(Top.child_rels).toModelObject # None
    /\ Len(stack) < MaxDepth
    /\ LET rel == Head(Top.child_rels)
           me == [Top EXCEPT !.child_rels = Tail(@),
                             !.results = Append(@, DomainMemberRecord(Top.concept, rel, Top.role_uri, Top.depth))]
       IN  stack' = Append(Append(Below, me),
                           Frame(rel.toModelObject, Top.role_uri, Top.depth + 1, Top.visited))
    /\ UNCHANGED <<model_xbrl, pc, result, walk, outcome, closed, ret, statement_type_mappings, file_reads, workers>>

\* if rel.linkrole != role_uri: continue
DomainMemberSkipRole ==
    /\ pc = "definition_relationships"
    /\ stack # <<>>
    /\ Top.at = "loop"
    /\ Top.child_rels # <<>>
    /\ OtherRole(Head(Top.child_rels), Top.role_uri)
    /\ stack' = [stack EXCEPT ![Len(stack)].child_rels = Tail(@)]
    /\ UNCHANGED <<model_xbrl, pc, result, walk, outcome, closed, ret, statement_type_mappings, file_reads, workers>>

\* str(child.qname) raises AttributeError when the relationship has no target
\* concept. Neither walk catches it: every activation on the path is left, the
\* lists they built are lost, and the except clause of the root loop goes on with
\* the next root (the roles of this root not walked yet are skipped with it).
TraverseRaises ==
    /\ pc \in {"presentation_relationships", "definition_relationships"}
    /\ stack # <<>>
    /\ Top.at = "loop"
    /\ Top.child_rels # <<>>
    /\ Head(Top.child_rels).toModelObject = None
    /\ pc = "definition_relationships" => ~OtherRole(Head(Top.child_rels), Top.role_uri)
    /\ stack' = <<>>
    /\ walk' = [walk EXCEPT !.root_roles = {}]
    /\ UNCHANGED <<model_xbrl, pc, result, outcome, closed, ret, statement_type_mappings, file_reads, workers>>

\* return results, to the recursive caller: results.extend(<returned list>)
TraverseReturn ==
    /\ pc \in {"presentation_relationships", "definition_relationships"}
    /\ Len(stack) > 1
    /\ Top.at = "loop"
    /\ Top.child_rels = <<>>
    /\ stack' = [Below EXCEPT ![Len(Below)] =
                    [@ EXCEPT !.results = @ \o Top.results,
                              !.visited = VisitedAfterCall(@, Top.visited)]]
    /\ UNCHANGED <<model_xbrl, pc, result, walk, outcome, closed, ret, statement_type_mappings, file_reads, workers>>

\* return results, to the root loop: relationships.extend(<returned list>)
TraverseReturnToRoot ==
    /\ pc \in {"presentation_relationships", "definition_relationships"}
    /\ Len(stack) = 1
    /\ Top.at = "loop"
    /\ Top.child_rels = <<>>
    /\ stack' = <<>>
    /\ walk' = [walk EXCEPT !.relationships = @ \o Top.results]
    /\ UNCHANGED <<model_xbrl, pc, result, outcome, closed, ret, statement_type_mappings, file_reads, workers>>

(***************************************************************************)
(* _extract_presentation_relationships                                     *)
(***************************************************************************)
IdleWalk == [phase |-> "begin", root_concepts |-> <<>>, root |-> None,
             root_roles |-> {}, relationships |-> <<>>]

\* relationships = []; root_concepts = pres_rel_set.rootConcepts
PresentationBegin ==
    /\ pc = "presentation_relationships"
    /\ walk.phase = "begin"
    /\ walk' = [walk EXCEPT !.phase = "roots",
                            !.root_concepts = rootConcepts(model_xbrl.parentChild),
                            !.relationships = <<>>]
    /\ UNCHANGED <<model_xbrl, pc, result, stack, outcome, closed, ret, statement_type_mappings, file_reads, workers>>

\* for root_concept in root_concepts: _traverse_presentation_tree(pres_rel_set, root_concept, depth=0)
PresentationNextRoot ==
    /\ pc = "presentation_relationships"
    /\ walk.phase = "roots"
    /\ stack = <<>>
    /\ walk.root_concepts # <<>>
    /\ stack' = <<Frame(Head(walk.root_concepts), NoneStr, 0, {})>>
    /\ walk' = [walk EXCEPT !.root_concepts = Tail(@), !.root = Head(walk.root_concepts)]
    /\ UNCHANGED <<model_xbrl, pc, result, outcome, closed, ret, statement_type_mappings, file_reads, workers>>

\* return relationships
PresentationEnd ==
    /\ pc = "presentation_relationships"
    /\ walk.phase = "roots"
    /\ stack = <<>>
    /\ walk.root_concepts = <<>>
    /\ result' = Evaluated("presentation_relationships", walk.relationships)
    /\ walk' = IdleWalk
    /\ pc' = After("presentation_relationships")
    /\ UNCHANGED <<model_xbrl, stack, outcome, closed, ret, statement_type_mappings, file_reads, workers>>

(***************************************************************************)
(* _extract_definition_relationships                                       *)
(***************************************************************************)
\* the five flat arcroles, in the order the code iterates them
flat_arcroles == <<"all", "notAll", "hypercube-dimension", "dimension-domain", "dimension-default">>

\* the record of one flat relationship
FlatRecord(rel, type_name) ==
    LET rel_data == [from_concept |-> rel.fromModelObject,
                     to_concept |-> rel.toModelObject,
                     relationship_type |-> type_name,
                     role_uri |-> rel.linkrole,
                     order |-> OrderOrNone(rel.order),
                     priority |-> rel.priority]
    IN  IF type_name \in {"all", "notAll"}
        THEN rel_data @@ ("is_closed" :> (IF rel.closed \in {None, "false"} THEN None ELSE rel.closed))
        ELSE rel_data

\* reading .qname of a missing endpoint raises; the except clause skips the relationship
EndpointsPresent(rel) == rel.fromModelObject # None /\ rel.toModelObject # None

RECURSIVE FlatRecordsOf(_, _)
FlatRecordsOf(rels, type_name) ==
    IF rels = <<>> THEN <<>>
    ELSE (IF EndpointsPresent(Head(rels)) THEN <<FlatRecord(Head(rels), type_name)>> ELSE <<>>)
         \o FlatRecordsOf(Tail(rels), type_name)

\* the first loop of _extract_definition_relationships, over the arcroles from index i
RECURSIVE FlatDefinitionRecords(_, _)
FlatDefinitionRecords(rel_sets, i) ==
    IF i > Len(flat_arcroles) THEN <<>>
    ELSE FlatRecordsOf(rel_sets[flat_arcroles[i]], flat_arcroles[i])
         \o FlatDefinitionRecords(rel_sets, i + 1)

\* relationships = [...flat records...]; root_concepts = dm_rel_set.rootConcepts
DefinitionBegin ==
    /\ pc = "definition_relationships"
    /\ walk.phase = "begin"
    /\ walk' = [walk EXCEPT !.phase = "roots",
                            !.root_concepts = rootConcepts(model_xbrl.domainMember),
                            !.relationships = FlatDefinitionRecords(model_xbrl.definitionFlat, 1)]
    /\ UNCHANGED <<model_xbrl, pc, result, stack, outcome, closed, ret, statement_type_mappings, file_reads, workers>>

\* for root in root_concepts: root_roles = set(rel.linkrole for rel in fromModelObject(root))
DefinitionNextRoot ==
    /\ pc = "definition_relationships"
    /\ walk.phase = "roots"
    /\ stack = <<>>
    /\ walk.root_roles = {}
    /\ walk.root_concepts # <<>>
    /\ LET root == Head(walk.root_concepts)
           child_rels == fromModelObject(model_xbrl.domainMember, root)
       IN  walk' = [walk EXCEPT !.root_concepts = Tail(@),
                                !.root = root,
                                !.root_roles = {child_rels[i].linkrole : i \in 1..Len(child_rels)}]
    /\ UNCHANGED <<model_xbrl, pc, result, stack, outcome, closed, ret, statement_type_mappings, file_reads, workers>>

\* for role_uri in root_roles: _traverse_domain_member_tree(dm_rel_set, root, role_uri, depth=0)
\* (root_roles is a set of str: its iteration order is not fixed)
DefinitionNextRole ==
    /\ pc = "definition_relationships"
    /\ walk.phase = "roots"
    /\ stack = <<>>
    /\ \E role_uri \in walk.root_roles :
        /\ stack' = <<Frame(walk.root, role_uri, 0, {})>>
        /\ walk' = [walk EXCEPT !.root_roles = @ \ {role_uri}]
    /\ UNCHANGED <<model_xbrl, pc, result, outcome, closed, ret, statement_type_mappings, file_reads, workers>>

\* return relationships
DefinitionEnd ==
    /\ pc = "definition_relationships"
    /\ walk.phase = "roots"
    /\ stack = <<>>
    /\ walk.root_roles = {}
    /\ walk.root_concepts = <<>>
    /\ result' = Evaluated("definition_relationships", walk.relationships)
    /\ walk' = IdleWalk
    /\ pc' = After("definition_relationships")
    /\ UNCHANGED <<model_xbrl, stack, outcome, closed, ret, statement_type_mappings, file_reads, workers>>

(***************************************************************************)
(* parse_xbrl_from_url and _extract_all_data                               *)
(***************************************************************************)
\* the cache before the first load, and load_statement_type_mappings()
\* (object names the dict object held: the number of the read that built it, 0 for None)
NotLoaded == [loaded |-> FALSE, mappings |-> EmptyDict, object |-> 0]
load_statement_type_mappings(cache) ==
    IF cache.loaded THEN cache
    ELSE [loaded |-> TRUE, mappings |-> MappingFile, object |-> file_reads + 1]

\* model_xbrl is None
ProviderReturnedNothing(m) == m.loaded = "none"

\* model_xbrl.modelDocument is None
ModelDocumentNeverChecked(m) == FALSE
NoModelDocument(m) == m.loaded = "nodoc"

\* raise ValueError("Failed to load XBRL document")
LoadNone ==
    /\ pc = "load"
    /\ ProviderReturnedNothing(model_xbrl)
    /\ pc' = "except"
    /\ UNCHANGED <<model_xbrl, result, walk, stack, outcome, closed, ret, statement_type_mappings, file_reads, workers>>

\* raise ValueError("XBRL document has no model document")
LoadNoDocument ==
    /\ pc = "load"
    /\ ~ProviderReturnedNothing(model_xbrl)
    /\ NoModelDocument(model_xbrl)
    /\ pc' = "except"
    /\ UNCHANGED <<model_xbrl, result, walk, stack, outcome, closed, ret, statement_type_mappings, file_reads, workers>>

\* the document is usable: result = self._extract_all_data(model_xbrl)
LoadOk ==
    /\ pc = "load"
    /\ ~ProviderReturnedNothing(model_xbrl)
    /\ ~NoModelDocument(model_xbrl)
    /\ pc' = "document_info"
    /\ UNCHANGED <<model_xbrl, result, walk, stack, outcome, closed, ret, statement_type_mappings, file_reads, workers>>

ExtractDocumentInfo ==
    /\ pc = "document_info"
    /\ ~document_info_raises(model_xbrl)
    /\ result' = Evaluated("document_info", _extract_document_info(model_xbrl))
    /\ pc' = After("document_info")
    /\ UNCHANGED <<model_xbrl, walk, stack, outcome, closed, ret, statement_type_mappings, file_reads, workers>>

ExtractContexts ==
    /\ pc = "contexts"
    /\ ~contexts_raises(model_xbrl)
    /\ result' = Evaluated("contexts", _extract_contexts(model_xbrl))
    /\ pc' = After("contexts")
    /\ UNCHANGED <<model_xbrl, walk, stack, outcome, closed, ret, statement_type_mappings, file_reads, workers>>

ExtractUnits ==
    /\ pc = "units"
    /\ result' = Evaluated("units", _extract_units(model_xbrl))
    /\ pc' = After("units")
    /\ UNCHANGED <<model_xbrl, walk, stack, outcome, closed, ret, statement_type_mappings, file_reads, workers>>

ExtractFacts ==
    /\ pc = "facts"
    /\ ~facts_raises(model_xbrl)
    /\ result' = Evaluated("facts", _extract_facts(model_xbrl))
    /\ pc' = After("facts")
    /\ UNCHANGED <<model_xbrl, walk, stack, outcome, closed, ret, statement_type_mappings, file_reads, workers>>

\* an exception no extraction step catches leaves _extract_all_data
ExtractionRaises ==
    /\ \/ pc = "document_info" /\ document_info_raises(model_xbrl)
       \/ pc = "contexts" /\ contexts_raises(model_xbrl)
       \/ pc = "facts" /\ facts_raises(model_xbrl)
    /\ pc' = "except"
    /\ UNCHANGED <<model_xbrl, result, walk, stack, outcome, closed, ret, statement_type_mappings, file_reads, workers>>

ExtractConcepts ==
    /\ pc = "concepts"
    /\ result' = Evaluated("concepts", _extract_concepts(model_xbrl))
    /\ pc' = After("concepts")
    /\ UNCHANGED <<model_xbrl, walk, stack, outcome, closed, ret, statement_type_mappings, file_reads, workers>>

ExtractLabels ==
    /\ pc = "labels"
    /\ result' = Evaluated("labels", _extract_labels(model_xbrl))
    /\ pc' = After("labels")
    /\ UNCHANGED <<model_xbrl, walk, stack, outcome, closed, ret, statement_type_mappings, file_reads, workers>>

\* mappings = load_statement_type_mappings(), then the loop over the active roles
ExtractStatementRoles ==
    /\ pc = "statement_roles"
    /\ statement_type_mappings' = load_statement_type_mappings(statement_type_mappings)
    /\ result' = Evaluated("statement_roles",
                           _extract_statement_roles(model_xbrl, statement_type_mappings'.mappings))
    /\ file_reads' = IF statement_type_mappings.loaded THEN file_reads ELSE file_reads + 1
    /\ pc' = After("statement_roles")
    /\ UNCHANGED <<model_xbrl, walk, stack, outcome, closed, ret, workers>>

ExtractCalculationRelationships ==
    /\ pc = "calculation_relationships"
    /\ result' = Evaluated("calculation_relationships", _extract_calculation_relationships(model_xbrl))
    /\ pc' = After("calculation_relationships")
    /\ UNCHANGED <<model_xbrl, walk, stack, outcome, closed, ret, statement_type_mappings, file_reads, workers>>

GenerateSummary ==
    /\ pc = "summary"
    /\ result' = Evaluated("summary", _generate_summary(model_xbrl))
    /\ pc' = After("summary")
    /\ UNCHANGED <<model_xbrl, walk, stack, outcome, closed, ret, statement_type_mappings, file_reads, workers>>

\* return result
Return ==
    /\ pc = "return"
    /\ ret' = <<result>>
    /\ outcome' = "returned"
    /\ pc' = "finally"
    /\ UNCHANGED <<model_xbrl, result, walk, stack, closed, statement_type_mappings, file_reads, workers>>

\* except Exception as e: logger.error(...); raise
Except ==
    /\ pc = "except"
    /\ outcome' = "raised"
    /\ pc' = "finally"
    /\ UNCHANGED <<model_xbrl, result, walk, stack, closed, ret, statement_type_mappings, file_reads, workers>>

\* the number of close() calls made once the finally clause has run
ClosedWhateverWasLoaded(m, calls) == calls + 1
ClosedInFinally(m, calls) == IF ProviderReturnedNothing(m) THEN calls ELSE calls + 1

\* finally: if model_xbrl is not None: model_xbrl.close()
Finally ==
    /\ pc = "finally"
    /\ closed' = ClosedInFinally(model_xbrl, closed)
    /\ pc' = "done"
    /\ UNCHANGED <<model_xbrl, result, walk, stack, outcome, ret, statement_type_mappings, file_reads, workers>>

\* the steps of the two hierarchical extractions
NextWalk ==
    \/ PresentationBegin
    \/ PresentationNextRoot
    \/ PresentationStep
    \/ PresentationEnd
    \/ DefinitionBegin
    \/ DefinitionNextRoot
    \/ DefinitionNextRole
    \/ DomainMemberStep
    \/ DomainMemberSkipRole
    \/ DefinitionEnd
    \/ TraverseCycle
    \/ TraverseEnter
    \/ TraverseRaises
    \/ TraverseReturn
    \/ TraverseReturnToRoot

\* the steps of parse_xbrl_from_url
Next ==
    \/ LoadNone
    \/ LoadNoDocument
    \/ LoadOk
    \/ ExtractDocumentInfo
    \/ ExtractContexts
    \/ ExtractUnits
    \/ ExtractFacts
    \/ ExtractionRaises
    \/ ExtractConcepts
    \/ ExtractLabels
    \/ ExtractStatementRoles
    \/ ExtractCalculationRelationships
    \/ GenerateSummary
    \/ Return
    \/ Except
    \/ Finally
    \/ NextWalk

(***************************************************************************)
(* Input documents                                                         *)
(***************************************************************************)
\* one relationship of a relationship set
Rel(from, to, linkrole) ==
    [fromModelObject |-> from, toModelObject |-> to, linkrole |-> linkrole,
     order |-> "1.0", priority |-> 0, preferredLabel |-> None, closed |-> None, weight |-> "1.0"]

NoFlatRels == [a \in {flat_arcroles[i] : i \in 1..Len(flat_arcroles)} |-> <<>>]

\* qnames, as the provider hands them out
QAssets ==
    [str |-> "us-gaap:Assets", localName |-> "Assets", prefix |-> "us-gaap",
     namespaceURI |-> "http://fasb.org/us-gaap/2024"]
QDocumentType ==
    [str |-> "dei:DocumentType", localName |-> "DocumentType", prefix |-> "dei",
     namespaceURI |-> "http://xbrl.sec.gov/dei/2024"]
QPolicy ==
    [str |-> "msft:PolicyTextBlock", localName |-> "PolicyTextBlock", prefix |-> "msft",
     namespaceURI |-> "http://www.microsoft.com/20240630"]
\* a name in the default namespace of the instance: no prefix
QUnprefixed ==
    [str |-> "SegmentNote", localName |-> "SegmentNote", prefix |-> None,
     namespaceURI |-> "http://www.microsoft.com/20240630"]

\* label resources of the label linkbase
StandardLabelResource ==
    [text |-> <<"T","o","t","a","l"," ","A","s","s","e","t","s">>, role |-> "http://www.xbrl.org/2003/role/label", xmlLang |-> "en-US"]
TerseLabelResource ==
    [text |-> <<"A","s","s","e","t","s">>, role |-> "http://www.xbrl.org/2003/role/terseLabel", xmlLang |-> None]
EmptyLabelResource ==
    [text |-> <<>>, role |-> "http://www.xbrl.org/2003/role/label", xmlLang |-> "en-US"]

\* taxonomy concepts
AssetsConcept ==
    [key |-> "us-gaap:Assets", qname |-> QAssets,
     standard_label |-> <<"T","o","t","a","l"," ","A","s","s","e","t","s">>, terse_label |-> <<"A","&","a","m","p",";","B">>,
     verbose_label |-> NoneStr, documentation |-> <<"raises">>,
     typeQname |-> "xbrli:monetaryItemType", baseXsdType |-> "decimal",
     isNumeric |-> TRUE, isMonetary |-> TRUE, balance |-> "debit",
     periodType |-> "instant", isAbstract |-> FALSE, substitutionGroupQname |-> "xbrli:item",
     label_rels |-> <<StandardLabelResource, NoneObj, EmptyLabelResource, TerseLabelResource>>]
DocumentTypeConcept ==
    [key |-> "dei:DocumentType", qname |-> QDocumentType,
     standard_label |-> <<"raises">>, terse_label |-> NoneStr,
     verbose_label |-> NoneStr, documentation |-> NoneStr,
     typeQname |-> None, baseXsdType |-> "string",
     isNumeric |-> FALSE, isMonetary |-> FALSE, balance |-> None,
     periodType |-> "duration", isAbstract |-> FALSE, substitutionGroupQname |-> "xbrli:item",
     label_rels |-> <<>>]
PolicyConcept ==
    [key |-> "msft:PolicyTextBlock", qname |-> QPolicy,
     standard_label |-> <<"P","o","l","i","c","y">>, terse_label |-> <<"P","o","l","i","c","y">>,
     verbose_label |-> NoneStr, documentation |-> NoneStr,
     typeQname |-> "nonnum:textBlockItemType", baseXsdType |-> "string",
     isNumeric |-> FALSE, isMonetary |-> FALSE, balance |-> None,
     periodType |-> "duration", isAbstract |-> FALSE, substitutionGroupQname |-> "xbrli:item",
     label_rels |-> <<>>]
\* a concept object whose qname cannot be read
BrokenConcept == [AssetsConcept EXCEPT !.key = "us-gaap:Broken", !.qname = NoneObj, !.label_rels = <<>>]

\* contexts
Entity == <<"http://www.sec.gov/CIK", "0000789019">>
SegmentDimension ==
    [qname |-> "us-gaap:StatementBusinessSegmentsAxis", localName |-> "StatementBusinessSegmentsAxis",
     value |-> [attrs |-> {"memberQname"}, memberQname |-> "msft:CloudMember",
                memberLocalName |-> "CloudMember", member_label |-> "Cloud", typedMember |-> None]]
TypedDimension ==
    [qname |-> "msft:ContractAxis", localName |-> "ContractAxis",
     value |-> [attrs |-> {"typedMember"}, memberQname |-> None,
                memberLocalName |-> None, member_label |-> None, typedMember |-> "42"]]
NullValueDimension ==
    [qname |-> "us-gaap:ProductAxis", localName |-> "ProductAxis", value |-> NoneObj]
UnresolvedDimension ==
    [qname |-> "srt:ProductOrServiceAxis", localName |-> "ProductOrServiceAxis",
     value |-> [attrs |-> {"memberQname"}, memberQname |-> None,
                memberLocalName |-> None, member_label |-> None, typedMember |-> None]]
InstantContext ==
    [id |-> "c1", entityIdentifier |-> Entity,
     isInstantPeriod |-> TRUE, isStartEndPeriod |-> FALSE, isForeverPeriod |-> FALSE,
     instantDatetime |-> "2024-07-01 00:00:00", startDatetime |-> None, endDatetime |-> None,
     qnameDims |-> <<>>]
DurationContext ==
    [id |-> "c2", entityIdentifier |-> Entity,
     isInstantPeriod |-> FALSE, isStartEndPeriod |-> TRUE, isForeverPeriod |-> FALSE,
     instantDatetime |-> None, startDatetime |-> "2023-07-01 00:00:00",
     endDatetime |-> "2024-07-01 00:00:00",
     qnameDims |-> <<SegmentDimension, NullValueDimension, UnresolvedDimension, TypedDimension>>]
ForeverContext ==
    [InstantContext EXCEPT !.id = "c2", !.isInstantPeriod = FALSE, !.isForeverPeriod = TRUE,
                           !.instantDatetime = None]
NoPeriodContext ==
    [InstantContext EXCEPT !.id = "c1", !.isInstantPeriod = FALSE, !.instantDatetime = None]
NoEntityContext == [InstantContext EXCEPT !.id = "c5", !.entityIdentifier = NoEntityIdentifier]
ContextPool == <<InstantContext, DurationContext, ForeverContext, NoPeriodContext, NoEntityContext>>

\* units: measures is the (numerator, denominator) tuple of the provider
Unit(id, has_measures, measures) == [id |-> id, has_measures |-> has_measures, measures |-> measures]
UnitPool ==
    <<Unit("usd", TRUE, << <<"iso4217:USD">>, <<>> >>),
      Unit("usdPerShare", TRUE, << <<"iso4217:USD">>, <<"xbrli:shares">> >>),
      Unit("shares", TRUE, << <<"xbrli:shares">> >>),
      Unit("perShare", TRUE, << <<>>, <<"xbrli:shares">> >>),
      Unit("empty", TRUE, <<>>),
      Unit("bare", FALSE, <<>>)>>

\* facts
AssetsFact ==
    [qname |-> QAssets, contextID |-> "c1", value |-> <<"5","1","2">>, unitID |-> "usd",
     concept |-> AssetsConcept, isNumeric |-> TRUE, decimals |-> "-6", precision |-> None,
     id |-> "f1", sourceline |-> 120, basename |-> "msft-20240630.htm"]
PolicyFact ==
    [qname |-> QPolicy, contextID |-> "c2", value |-> <<"<","p",">","a"," ","&","a","m","p",";"," ","b","<","/","p",">">>, unitID |-> None,
     concept |-> PolicyConcept, isNumeric |-> FALSE, decimals |-> None, precision |-> None,
     id |-> None, sourceline |-> 0, basename |-> None]
DocumentTypeFact ==
    [PolicyFact EXCEPT !.qname = QDocumentType, !.value = <<"1","0","-","K">>, !.concept = DocumentTypeConcept,
                       !.contextID = "c9"]
\* a numeric fact the provider reports no value for
NoValueFact == [AssetsFact EXCEPT !.value = NoneStr, !.id = "f2"]
\* a non-numeric fact the provider reports no value for
NoValueTextFact == [PolicyFact EXCEPT !.value = NoneStr]
\* a fact that names no context
NoContextFact == [AssetsFact EXCEPT !.contextID = None, !.id = "f3"]
\* a fact whose concept is not in the taxonomy
NoConceptFact == [AssetsFact EXCEPT !.concept = NoneObj, !.id = "f4"]
\* a fact without a qname
NoQnameFact == [AssetsFact EXCEPT !.qname = NoneObj, !.concept = NoneObj, !.id = "f5"]
\* a fact whose name has no prefix
UnprefixedFact == [PolicyFact EXCEPT !.qname = QUnprefixed, !.concept = NoneObj, !.id = "f6"]
FactPool ==
    <<AssetsFact, PolicyFact, DocumentTypeFact, NoValueFact, NoValueTextFact, NoContextFact,
      NoConceptFact, NoQnameFact, UnprefixedFact>>

\* role types of the document: the roles with a definition
RoleType(definition, genLabel) == [definition |-> definition, genLabel |-> genLabel]
RoleTypes ==
    (RoleBS :> <<RoleType(<<"2"," ","-"," ","S","t","a","t","e","m","e","n","t"," ","-"," ","B","S">>, <<"B","S">>)>>)
    @@ (RoleIS :> <<RoleType(<<"4"," ","-"," ","S","T","A","T","E","M","E","N","T"," ","-"," ","I","S">>, <<"raises">>)>>)
    @@ (RoleBSP :> <<RoleType(<<"3"," ","-"," ","S","t","a","t","e","m","e","n","t"," ","-"," ","B","S"," ","(","P","a","r","e","n","t","h","e","t","i","c","a","l",")">>, NoneStr)>>)
    @@ (RoleISP :> <<RoleType(<<"4"," ","-"," ","S","T","A","T","E","M","E","N","T"," ","-"," ","I","S">>, NoneStr)>>)
    @@ (RoleDoc :> <<RoleType(<<"1"," ","-"," ","D","o","c","u","m","e","n","t"," ","-"," ","C","o","v","e","r">>, NoneStr)>>)
    @@ (RoleNote :> <<RoleType(<<"N","o","t","e","s">>, NoneStr)>>)
RolePool == <<RoleBS, RoleIS, RoleBSP, RoleISP, RoleCFp, RoleDoc, RoleNote>>

\* a loaded document with nothing in it
EmptyDoc ==
    [loaded |-> "ok",
     document_type |-> "INLINEXBRL",
     contexts |-> <<>>,
     units |-> <<>>,
     facts |-> <<>>,
     qnameConcepts |-> <<>>,
     roleTypes |-> RoleTypes,
     parentChild |-> <<>>,
     summationItem |-> <<>>,
     summationItem11 |-> <<>>,
     domainMember |-> <<>>,
     definitionFlat |-> NoFlatRels]

\* the elements of seq at the indices in S, in order
RECURSIVE At(_, _, _)
At(seq, S, i) ==
    IF i > Len(seq) THEN <<>>
    ELSE (IF i \in S THEN <<seq[i]>> ELSE <<>>) \o At(seq, S, i + 1)

\* number of relationships of a drawn graph
MaxEdges == 4

PresConcepts == <<"R", "A", "C", "D">>
PresUniverse ==
    [i \in 1..16 |-> Rel(PresConcepts[((i - 1) \div 4) + 1], PresConcepts[((i - 1) % 4) + 1], RoleBS)]

DmConcepts == <<"R", "A", "C">>
DmRoles == <<RoleBS, RoleIS>>
DmUniverse ==
    [i \in 1..18 |-> Rel(DmConcepts[((i - 1) \div 6) + 1],
                         DmConcepts[(((i - 1) % 6) \div 2) + 1],
                         DmRoles[((i - 1) % 2) + 1])]

\* _extract_presentation_relationships is called on a document with any parent-child
\* graph of at most MaxEdges relationships
InitPresentationWalk ==
    /\ \E S \in SUBSET (1..16) :
        /\ Cardinality(S) <= MaxEdges
        /\ model_xbrl = [EmptyDoc EXCEPT !.parentChild = At(PresUniverse, S, 1)]
    /\ pc = "presentation_relationships"
    /\ result = EmptyDict
    /\ walk = IdleWalk
    /\ stack = <<>>
    /\ outcome = "running"
    /\ closed = 0
    /\ ret = <<>>
    /\ statement_type_mappings = NotLoaded
    /\ file_reads = 0
    /\ workers = <<>>

\* _extract_definition_relationships is called on a document with any domain-member
\* graph of at most MaxEdges relationships
InitDefinitionWalk ==
    /\ \E S \in SUBSET (1..18) :
        /\ Cardinality(S) <= MaxEdges
        /\ model_xbrl = [EmptyDoc EXCEPT !.domainMember = At(DmUniverse, S, 1)]
    /\ pc = "definition_relationships"
    /\ result = EmptyDict
    /\ walk = IdleWalk
    /\ stack = <<>>
    /\ outcome = "running"
    /\ closed = 0
    /\ ret = <<>>
    /\ statement_type_mappings = NotLoaded
    /\ file_reads = 0
    /\ workers = <<>>

\* graphs with relationships that have no target concept: two roots R and S, a
\* concept A below them, relationships to A, to C and to nothing
RaisingSources == <<"R", "S", "A">>
RaisingTargets == <<"A", "C", None>>
RaisingPresUniverse ==
    [i \in 1..9 |-> Rel(RaisingSources[((i - 1) \div 3) + 1], RaisingTargets[((i - 1) % 3) + 1], RoleBS)]
RaisingDmUniverse ==
    [i \in 1..12 |-> Rel(RaisingSources[((i - 1) \div 4) + 1],
                         RaisingTargets[(((i - 1) % 4) \div 2) + 2],
                         DmRoles[((i - 1) % 2) + 1])]

\* either walk on a graph of at most MaxEdges relationships, some without target
InitRaisingWalk ==
    /\ \/ \E S \in SUBSET (1..9) :
             /\ Cardinality(S) <= MaxEdges
             /\ model_xbrl = [EmptyDoc EXCEPT !.parentChild = At(RaisingPresUniverse, S, 1)]
             /\ pc = "presentation_relationships"
       \/ \E S \in SUBSET (1..12) :
             /\ Cardinality(S) <= MaxEdges
             /\ model_xbrl = [EmptyDoc EXCEPT !.domainMember = At(RaisingDmUniverse, S, 1)]
             /\ pc = "definition_relationships"
    /\ result = EmptyDict
    /\ walk = IdleWalk
    /\ stack = <<>>
    /\ outcome = "running"
    /\ closed = 0
    /\ ret = <<>>
    /\ statement_type_mappings = NotLoaded
    /\ file_reads = 0
    /\ workers = <<>>

InitWalk == InitPresentationWalk \/ InitDefinitionWalk \/ InitRaisingWalk

SpecWalk == InitWalk /\ [][NextWalk]_vars

\* the interpreter runs the walk to its end
FairSpecWalk == SpecWalk /\ WF_vars(NextWalk)

(***************************************************************************)
(* parse_xbrl_from_url on the documents a provider can hand over           *)
(***************************************************************************)
\* numbers of facts, units, contexts and active roles of a drawn document
MaxFacts == 2
MaxUnits == 2
MaxContexts == 2
MaxRoles == 3

\* number of calculation relationships of a drawn document
MaxCalcs == 2

\* summation-item relationships: weights of both signs, an order of zero, a
\* relationship whose target concept is missing
CalcPool ==
    <<Rel("T", "A", RoleBS),
      [Rel("T", "C", RoleIS) EXCEPT !.weight = "-1.0", !.order = "2.0", !.priority = 1],
      [Rel("T", "D", RoleBS) EXCEPT !.order = "0.0"],
      Rel("T", None, RoleBS)>>

\* the sequences of at most n elements of pool
SeqsUpTo(pool, n) ==
    UNION {[1..k -> {pool[i] : i \in 1..Len(pool)}] : k \in 0..n}

\* a filing with a little of everything: a presentation cycle below the root, a
\* domain-member tree in two roles with a self-loop, calculation relationships of
\* both generations, one with a missing endpoint
BaseDoc ==
    [EmptyDoc EXCEPT
        !.contexts = <<InstantContext, DurationContext>>,
        !.units = <<UnitPool[1], UnitPool[2]>>,
        !.facts = <<AssetsFact, PolicyFact>>,
        !.qnameConcepts = <<AssetsConcept, BrokenConcept, DocumentTypeConcept>>,
        !.parentChild = <<Rel("R", "A", RoleBS), Rel("A", "C", RoleBS), Rel("C", "A", RoleBS),
                          Rel("S", "A", RoleIS), Rel("T", None, RoleIS)>>,
        !.summationItem = <<Rel("T", "A", RoleBS), Rel("T", None, RoleBS)>>,
        !.summationItem11 = <<Rel("T", "C", RoleBS)>>,
        !.domainMember = <<Rel("R", "A", RoleBS), Rel("R", "C", RoleIS), Rel("A", "A", RoleBS),
                           Rel("S", "C", RoleIS)>>,
        !.definitionFlat = [NoFlatRels EXCEPT ![flat_arcroles[1]] =
                               <<Rel("T", "X", RoleBS), Rel(None, "X", RoleBS)>>]]

\* the documents parse_xbrl_from_url is called on: BaseDoc with its facts, its
\* units, its contexts, its calculation relationships or its active roles replaced
\* by a drawn sequence, and the
\* two documents the provider fails to produce ("none": load returned None,
\* "nodoc": the object has no modelDocument)
Documents ==
    {[BaseDoc EXCEPT !.loaded = l] : l \in {"ok", "none", "nodoc"}}
    \cup {[BaseDoc EXCEPT !.facts = f] : f \in SeqsUpTo(FactPool, MaxFacts)}
    \cup {[BaseDoc EXCEPT !.units = u] :
            u \in {x \in SeqsUpTo(UnitPool, MaxUnits) :
                      \A i, j \in 1..Len(x) : x[i].id = x[j].id => i = j}}
    \cup {[BaseDoc EXCEPT !.contexts = c] :
            c \in {x \in SeqsUpTo(ContextPool, MaxContexts) :
                      \A i, j \in 1..Len(x) : x[i].id = x[j].id => i = j}}
    \cup {[BaseDoc EXCEPT !.summationItem = c[1], !.summationItem11 = c[2]] :
            c \in {x \in SeqsUpTo(CalcPool, MaxCalcs) \X SeqsUpTo(CalcPool, MaxCalcs) :
                      Len(x[1]) + Len(x[2]) <= MaxCalcs}}
    \cup {[BaseDoc EXCEPT !.parentChild =
                [i \in 1..Len(At(RolePool, S, 1)) |-> Rel("R", "A", At(RolePool, S, 1)[i])]] :
            S \in {x \in SUBSET (1..Len(RolePool)) : Cardinality(x) <= MaxRoles}}

Init ==
    /\ model_xbrl \in Documents
    /\ pc = "load"
    /\ result = EmptyDict
    /\ walk = IdleWalk
    /\ stack = <<>>
    /\ outcome = "running"
    /\ closed = 0
    /\ ret = <<>>
    /\ statement_type_mappings = NotLoaded
    /\ file_reads = 0
    /\ workers = <<>>

Spec == Init /\ [][Next]_vars

(***************************************************************************)
(* load_statement_type_mappings called by several workers of one process.  *)
(* A worker stands at "call" (before line 37), "read" (the cache was seen   *)
(* empty, before the file is read), "assign" (the file is read and parsed   *)
(* into data, before the global is assigned), "return" (before line 43) or  *)
(* "done" (got is the object it received).                                  *)
(***************************************************************************)
\* number of workers, and of calls each of them makes
MaxWorkers == 2
MaxCalls == 2

Worker == [at |-> "call", data |-> 0, got |-> <<>>]

\* if _statement_type_mappings is None:
LoadTest(w) ==
    /\ workers[w].at = "call"
    /\ workers' = [workers EXCEPT ![w].at =
                      IF statement_type_mappings.loaded THEN "return" ELSE "read"]
    /\ UNCHANGED <<model_xbrl, pc, result, walk, stack, outcome, closed, ret,
                   statement_type_mappings, file_reads>>

\* data = json.loads(ref.read_text(encoding="utf-8")): a new dict object
LoadRead(w) ==
    /\ workers[w].at = "read"
    /\ file_reads' = file_reads + 1
    /\ workers' = [workers EXCEPT ![w].at = "assign", ![w].data = file_reads + 1]
    /\ UNCHANGED <<model_xbrl, pc, result, walk, stack, outcome, closed, ret,
                   statement_type_mappings>>

\* _statement_type_mappings = data["mappings"]
LoadAssign(w) ==
    /\ workers[w].at = "assign"
    /\ statement_type_mappings' =
           [loaded |-> TRUE, mappings |-> MappingFile, object |-> workers[w].data]
    /\ workers' = [workers EXCEPT ![w].at = "return"]
    /\ UNCHANGED <<model_xbrl, pc, result, walk, stack, outcome, closed, ret, file_reads>>

\* return _statement_type_mappings
LoadReturn(w) ==
    /\ workers[w].at = "return"
    /\ workers' = [workers EXCEPT ![w].at = "done",
                                  ![w].got = Append(@, statement_type_mappings.object)]
    /\ UNCHANGED <<model_xbrl, pc, result, walk, stack, outcome, closed, ret,
                   statement_type_mappings, file_reads>>

\* the worker's next extraction calls the loader again
LoadAgain(w) ==
    /\ workers[w].at = "done"
    /\ Len(workers[w].got) < MaxCalls
    /\ workers' = [workers EXCEPT ![w].at = "call"]
    /\ UNCHANGED <<model_xbrl, pc, result, walk, stack, outcome, closed, ret,
                   statement_type_mappings, file_reads>>

NextLoad ==
    \/ \E w \in DOMAIN workers : LoadTest(w)
    \/ \E w \in DOMAIN workers : LoadRead(w)
    \/ \E w \in DOMAIN workers : LoadAssign(w)
    \/ \E w \in DOMAIN workers : LoadReturn(w)
    \/ \E w \in DOMAIN workers : LoadAgain(w)

\* a process with one to MaxWorkers workers and an empty cache
InitLoad ==
    /\ model_xbrl = BaseDoc
    /\ pc = "statement_roles"
    /\ result = EmptyDict
    /\ walk = IdleWalk
    /\ stack = <<>>
    /\ outcome = "running"
    /\ closed = 0
    /\ ret = <<>>
    /\ statement_type_mappings = NotLoaded
    /\ file_reads = 0
    /\ \E n \in 1..MaxWorkers : workers = [w \in 1..n |-> Worker]

SpecLoad == InitLoad /\ [][NextLoad]_vars

(***************************************************************************)
(* Graph notions the properties are stated with                            *)
(***************************************************************************)
ConceptsOf(rel_set) ==
    {rel_set[i].fromModelObject : i \in 1..Len(rel_set)}
    \cup {rel_set[i].toModelObject : i \in 1..Len(rel_set)}

ChildrenOf(rel_set, S) ==
    {rel_set[i].toModelObject : i \in {j \in 1..Len(rel_set) : rel_set[j].fromModelObject \in S}}

ParentsOf(rel_set, c) ==
    {rel_set[i].fromModelObject : i \in {j \in 1..Len(rel_set) : rel_set[j].toModelObject = c}}

\* the concepts reachable from S by one or more relationships
RECURSIVE ReachFrom(_, _, _)
ReachFrom(rel_set, frontier, seen) ==
    LET next == ChildrenOf(rel_set, frontier) \ seen
    IN  IF next = {} THEN seen ELSE ReachFrom(rel_set, next, seen \cup next)

DescendantsOf(rel_set, c) == ReachFrom(rel_set, {c}, {})

Acyclic(rel_set) == \A c \in ConceptsOf(rel_set) : c \notin DescendantsOf(rel_set, c)

RootSet(rel_set) == {rootConcepts(rel_set)[i] : i \in 1..Len(rootConcepts(rel_set))}

\* some concept below a root is its own descendant
CycleBelowRoot(rel_set) ==
    \E r \in RootSet(rel_set) : \E c \in DescendantsOf(rel_set, r) : c \in DescendantsOf(rel_set, c)

\* how many records of the list are the edge parent -> child
CountRecords(records, parent, child) ==
    Cardinality({i \in 1..Len(records) :
                    records[i].parent_concept = parent /\ records[i].child_concept = child})

\* how many records of the list are an edge from one of the parents to child
RECURSIVE CountRecordsInto(_, _, _)
CountRecordsInto(records, parents, child) ==
    IF parents = {} THEN 0
    ELSE LET p == CHOOSE x \in parents : TRUE
         IN  CountRecords(records, p, child) + CountRecordsInto(records, parents \ {p}, child)

\* every relationship of the set has its target concept
TargetsPresent(rel_set) == \A i \in 1..Len(rel_set) : rel_set[i].toModelObject # None

PresentationDone == pc = "calculation_relationships" /\ "presentation_relationships" \in DOMAIN result
DefinitionDone == pc = "summary" /\ "definition_relationships" \in DOMAIN result

(***************************************************************************)
(* C1.  Termination: on every finite relationship graph, cycles and        *)
(* self-loops included, the walk started from every root comes to its end: *)
(* the extraction that runs it returns.                                    *)
(***************************************************************************)
C1_WalkTerminates == <>(PresentationDone \/ DefinitionDone)

\* a walk that met a cycle below a root, took the  return []  branch and has ended
C1_Witness ==
    /\ \/ PresentationDone /\ CycleBelowRoot(model_xbrl.parentChild)
       \/ DefinitionDone /\ CycleBelowRoot(model_xbrl.domainMember)

(***************************************************************************)
(* C2.  A back-edge is not recorded: in no activation of the walk does a   *)
(* record of one of the activation's own edges have a child that is the    *)
(* activation's concept or one of its ancestors on the current path (the   *)
(* activation's visited set).                                              *)
(***************************************************************************)
OwnBackEdgeRecords(frame) ==
    {i \in 1..Len(frame.results) :
        IF pc = "presentation_relationships"
        THEN /\ frame.results[i].parent_concept = frame.concept
             /\ frame.results[i].depth = frame.depth + 1
             /\ frame.results[i].child_concept \in frame.visited
        ELSE /\ frame.results[i].from_concept = frame.concept
             /\ frame.results[i].depth = frame.depth + 1
             /\ frame.results[i].to_concept \in frame.visited}

C2_NoBackEdgeRecorded ==
    \A k \in 1..Len(stack) : stack[k].at = "loop" => OwnBackEdgeRecords(stack[k]) = {}

(***************************************************************************)
(* C3.  Diamond: in an acyclic parent-child graph, a concept with two or   *)
(* more parents is recorded once per visit of each parent, and every edge  *)
(* below it is recorded once per recorded edge into it: visiting it on one *)
(* branch does not mark it visited for a sibling branch.  (The graph is    *)
(* one whose relationships all have their target concept.)                 *)
(***************************************************************************)
C3_DiamondVisitedOnEachPath ==
    PresentationDone /\ Acyclic(model_xbrl.parentChild) /\ TargetsPresent(model_xbrl.parentChild) =>
        LET rels == model_xbrl.parentChild
            out == result.presentation_relationships
        IN  \A c \in ConceptsOf(rels) :
                Cardinality(ParentsOf(rels, c)) >= 2 =>
                    /\ \A p \in ParentsOf(rels, c) : CountRecords(out, p, c) >= 1
                    /\ \A d \in ChildrenOf(rels, {c}) :
                          CountRecords(out, c, d) =
                              CountRecordsInto(out, ParentsOf(rels, c), c)

\* a finished walk of a diamond whose shared concept has a child, recorded twice
C3_Witness ==
    /\ PresentationDone
    /\ Acyclic(model_xbrl.parentChild)
    /\ \E c \in ConceptsOf(model_xbrl.parentChild) :
          /\ Cardinality(ParentsOf(model_xbrl.parentChild, c)) = 2
          /\ \E d \in ChildrenOf(model_xbrl.parentChild, {c}) :
                CountRecords(result.presentation_relationships, c, d) = 2

(***************************************************************************)
(* C4.  Once the provider has produced a usable document, no failure on a   *)
(* single element aborts the extraction: every finished call on a loaded    *)
(* document has returned a Document to its caller.                          *)
(***************************************************************************)
C4_UsableDocumentAlwaysReturns ==
    pc = "done" /\ model_xbrl.loaded = "ok" => outcome = "returned" /\ ret # <<>>

C6_FactsAreIdentified ==
    "facts" \in DOMAIN result =>
        \A i \in 1..Len(result.facts) :
            /\ result.facts[i].concept \notin {None, "", "None"}
            /\ result.facts[i].context_ref \notin {None, ""}

(***************************************************************************)
(* C7.  Every emitted fact record has a value field, and the value is       *)
(* non-null unless is_numeric is false: a numeric fact never carries a null *)
(* value.                                                                   *)
(***************************************************************************)
C7_NumericFactsHaveValue ==
    "facts" \in DOMAIN result =>
        \A i \in 1..Len(result.facts) :
            /\ "value" \in DOMAIN result.facts[i]
            /\ result.facts[i].value # NoneStr \/ result.facts[i].is_numeric = FALSE

(***************************************************************************)
(* C8.  Every emitted unit record has a unit_type, and exactly the fields   *)
(* of that type: "simple" with measures and neither numerator nor           *)
(* denominator, or "divide" with a numerator and a non-empty denominator    *)
(* and no measures.                                                         *)
(***************************************************************************)
C8_UnitsMatchTheirType ==
    "units" \in DOMAIN result =>
        \A i \in 1..Len(result.units) :
            LET unit_data == result.units[i]
                keys == DOMAIN unit_data
            IN  /\ "unit_type" \in keys
                /\ \/ /\ unit_data.unit_type = "simple"
                      /\ "measures" \in keys
                      /\ keys \cap {"numerator", "denominator"} = {}
                   \/ /\ unit_data.unit_type = "divide"
                      /\ {"numerator", "denominator"} \subseteq keys
                      /\ unit_data.denominator # <<>>
                      /\ "measures" \notin keys

(***************************************************************************)
(* C9.  No record of statement_roles has a role_uri that contains           *)
(* "parenthetical" in any letter case, whatever the active roles are.       *)
(***************************************************************************)
C9_NoParentheticalRole ==
    "statement_roles" \in DOMAIN result =>
        \A i \in 1..Len(result.statement_roles) :
            ~Contains(Lower(result.statement_roles[i].role_uri), Parenthetical)

\* statement roles extracted from a document whose active roles include one with
\* "Parenthetical" in mixed case, one with it in upper case, and a role that is kept
C9_Witness ==
    /\ "statement_roles" \in DOMAIN result
    /\ {RoleBSP, RoleISP} \subseteq ActiveRoles(model_xbrl)
    /\ result.statement_roles # <<>>

(***************************************************************************)
(* C10.  A role is returned in statement_roles only if the category parsed  *)
(* from its definition is "statement" in some letter case: no returned role *)
(* has a definition whose parsed category is anything else.                 *)
(***************************************************************************)
C10_OnlyStatementCategory ==
    "statement_roles" \in DOMAIN result =>
        \A i \in 1..Len(result.statement_roles) :
            LET parsed == parse_role_definition(
                              DefinitionOf(model_xbrl, result.statement_roles[i].role_uri))
            IN  parsed # <<>> => Lower(parsed[1]) = <<"s","t","a","t","e","m","e","n","t">>

(***************************************************************************)
(* C11.  The statement_type of a role is the value the mapping holds for    *)
(* the description parsed from the role's definition: for every returned    *)
(* role whose parsed description is a key of the mapping, statement_type    *)
(* equals mapping[description].                                             *)
(***************************************************************************)
C11_TypeFromDescription ==
    "statement_roles" \in DOMAIN result =>
        \A i \in 1..Len(result.statement_roles) :
            LET parsed == parse_role_definition(
                              DefinitionOf(model_xbrl, result.statement_roles[i].role_uri))
                mappings == statement_type_mappings.mappings
            IN  parsed # <<>> /\ parsed[2] \in DOMAIN mappings =>
                    result.statement_roles[i].statement_type = mappings[parsed[2]]

(***************************************************************************)
(* C12.  A lookup miss in the statement-type mapping neither raises nor     *)
(* drops the role: every active role that is not parenthetical has its      *)
(* record, and a record whose lookup key (the role URI) is not in the       *)
(* mapping has statement_type exactly "Unclassified".                       *)
(***************************************************************************)
C12_MissIsUnclassified ==
    "statement_roles" \in DOMAIN result =>
        /\ \A role_uri \in ActiveRoles(model_xbrl) :
              ~Contains(Lower(role_uri), Parenthetical) =>
                  \E i \in 1..Len(result.statement_roles) :
                      result.statement_roles[i].role_uri = role_uri
        /\ \A i \in 1..Len(result.statement_roles) :
              result.statement_roles[i].role_uri \notin DOMAIN statement_type_mappings.mappings =>
                  result.statement_roles[i].statement_type = "Unclassified"

\* a finished call that returned a role whose description ("Cover") and URI are
\* both unknown to the mapping
C12_Witness ==
    /\ outcome = "returned"
    /\ \E i \in 1..Len(ret[1].statement_roles) :
          /\ ret[1].statement_roles[i].role_uri = RoleDoc
          /\ ret[1].statement_roles[i].statement_type = "Unclassified"

(***************************************************************************)
(* C13.  Every Document returned by extraction has exactly the eleven       *)
(* top-level keys document_info, contexts, units, facts, concepts, labels,  *)
(* statement_roles, presentation_relationships, calculation_relationships,  *)
(* definition_relationships, summary: none missing, none extra.             *)
(***************************************************************************)
C13_ElevenKeys ==
    ret # <<>> =>
        DOMAIN ret[1] = {"document_info", "contexts", "units", "facts", "concepts", "labels",
                         "statement_roles", "presentation_relationships",
                         "calculation_relationships", "definition_relationships", "summary"}

\* a call that returned a Document
C13_Witness ==
    /\ pc = "done"
    /\ outcome = "returned"
    /\ ret # <<>>
    /\ Cardinality(DOMAIN ret[1]) = 11

(***************************************************************************)
(* C14.  Extraction is deterministic: two runs on the same document yield   *)
(* the same output, list orders included.  Every step of the extraction is  *)
(* a function of the document and of what was extracted so far, except the  *)
(* choice of the next role of a domain root, taken from root_roles in the   *)
(* iteration order of a set of str.  So two runs agree if and only if,      *)
(* whenever the walk of the next role of a root is about to start, there is *)
(* at most one role it can start with.                                      *)
(***************************************************************************)
C14_NextRoleIsDetermined ==
    pc = "definition_relationships" /\ walk.phase = "roots" /\ stack = <<>> =>
        Cardinality(walk.root_roles) <= 1

(***************************************************************************)
(* C15.  Every record of statement_roles contains all four fields          *)
(* role_uri, definition, statement_name and display_order.                  *)
(***************************************************************************)
C15_RoleRecordFields ==
    "statement_roles" \in DOMAIN result =>
        \A i \in 1..Len(result.statement_roles) :
            {"role_uri", "definition", "statement_name", "display_order"}
                \subseteq DOMAIN result.statement_roles[i]

(***************************************************************************)
(* C16.  The mapping file is read at most once per process, however many    *)
(* workers call load_statement_type_mappings and however their calls        *)
(* interleave, and every call returns the same mapping object.              *)
(***************************************************************************)
C16_FileReadOnce ==
    /\ file_reads <= 1
    /\ \A v, w \in DOMAIN workers :
          \A i \in 1..Len(workers[v].got) : \A j \in 1..Len(workers[w].got) :
              workers[v].got[i] = workers[w].got[j]

(***************************************************************************)
(* C17.  In every hierarchical edge record the depth is the depth of the    *)
(* edge's parent on the path it was recorded on plus 1, roots being at      *)
(* depth 0: the k-th activation on a path runs at depth k - 1; an edge it   *)
(* records has depth k and leaves its concept; a deeper record follows a    *)
(* record one level up whose child is its parent; and in the finished list  *)
(* the records of depth 1 leave a root.                                     *)
(***************************************************************************)
RecordParent(r) == IF "parent_concept" \in DOMAIN r THEN r.parent_concept ELSE r.from_concept
RecordChild(r) == IF "child_concept" \in DOMAIN r THEN r.child_concept ELSE r.to_concept

\* the records of the list from depth base on hang together as paths
DepthsChain(records, base) ==
    \A i \in 1..Len(records) :
        "depth" \in DOMAIN records[i] =>
            /\ records[i].depth >= base
            /\ records[i].depth > base =>
                  \E j \in 1..(i - 1) :
                      /\ "depth" \in DOMAIN records[j]
                      /\ records[j].depth = records[i].depth - 1
                      /\ RecordChild(records[j]) = RecordParent(records[i])

C17_DepthIsParentDepthPlusOne ==
    /\ \A k \in 1..Len(stack) :
          /\ stack[k].depth = k - 1
          /\ DepthsChain(stack[k].results, k)
          /\ \A i \in 1..Len(stack[k].results) :
                stack[k].results[i].depth = k =>
                    RecordParent(stack[k].results[i]) = stack[k].concept
    /\ DepthsChain(walk.relationships, 1)
    /\ \A i \in 1..Len(walk.relationships) :
          "depth" \in DOMAIN walk.relationships[i] /\ walk.relationships[i].depth = 1 =>
              RecordParent(walk.relationships[i]) \in
                  RootSet(model_xbrl.parentChild) \cup RootSet(model_xbrl.domainMember)

\* a finished presentation walk with an edge recorded three levels below a root
C17_Witness ==
    /\ PresentationDone
    /\ \E i \in 1..Len(result.presentation_relationships) :
          result.presentation_relationships[i].depth = 3

(***************************************************************************)
(* C18.  When the processing of one relationship raises during a walk (its  *)
(* target concept is missing), only that relationship or the subtree below  *)
(* it is skipped.  In particular an edge that leaves a root and has its     *)
(* target is in no such subtree: it is recorded, under the root of the      *)
(* raising relationship as under every other root.                          *)
(***************************************************************************)
C18_OnlyRaisingSubtreeSkipped ==
    /\ PresentationDone =>
          \A i \in 1..Len(model_xbrl.parentChild) :
              LET rel == model_xbrl.parentChild[i]
              IN  rel.fromModelObject \in RootSet(model_xbrl.parentChild)
                  /\ rel.toModelObject # None =>
                      CountRecords(result.presentation_relationships,
                                   rel.fromModelObject, rel.toModelObject) >= 1
    /\ DefinitionDone =>
          \A i \in 1..Len(model_xbrl.domainMember) :
              LET rel == model_xbrl.domainMember[i]
              IN  rel.fromModelObject \in RootSet(model_xbrl.domainMember)
                  /\ rel.toModelObject # None =>
                      \E j \in 1..Len(result.definition_relationships) :
                          LET r == result.definition_relationships[j]
                          IN  /\ r.relationship_type = "domain-member"
                              /\ r.from_concept = rel.fromModelObject
                              /\ r.to_concept = rel.toModelObject
                              /\ r.role_uri = rel.linkrole
                              /\ r.depth = 1

(***************************************************************************)
(* C19.  statement_roles is in lexical order of role URI and carries a      *)
(* 1-based display order in that sequence: the role_uri values are strictly *)
(* increasing and the display_order values are 1, 2, ..., n in list order,  *)
(* whatever roles were dropped.                                             *)
(***************************************************************************)
C19_LexicalOrderAndDisplayOrder ==
    "statement_roles" \in DOMAIN result =>
        /\ \A i \in 1..Len(result.statement_roles) :
              result.statement_roles[i].display_order = i
        /\ \A i, j \in 1..Len(result.statement_roles) :
              i < j => /\ result.statement_roles[i].role_uri # result.statement_roles[j].role_uri
                       /\ StrLess(result.statement_roles[i].role_uri,
                                  result.statement_roles[j].role_uri)

\* statement roles of a document whose dropped parenthetical role sorts between
\* two roles that are kept
C19_Witness ==
    /\ "statement_roles" \in DOMAIN result
    /\ {RoleBS, RoleBSP, RoleIS} \subseteq ActiveRoles(model_xbrl)
    /\ Len(result.statement_roles) = 2

(***************************************************************************)
(* C20.  A unit is classified "divide" if and only if its measures are a    *)
(* two-part tuple whose second part is non-empty, and every other unit is   *)
(* "simple": a divide record carries the first measure of each part, a      *)
(* simple record the first part as its measure list (empty when the unit    *)
(* has no measures).                                                        *)
(***************************************************************************)
C20_DivideIffSecondPartNonEmpty ==
    "units" \in DOMAIN result =>
        \A i \in 1..Len(result.units) :
            LET unit == model_xbrl.units[i]
                unit_data == result.units[i]
                two_part == unit.has_measures /\ Len(unit.measures) = 2
                                /\ Len(unit.measures[2]) > 0
            IN  /\ "unit_type" \in DOMAIN unit_data
                /\ unit_data.unit_type = (IF two_part THEN "divide" ELSE "simple")
                /\ two_part =>
                      /\ unit_data.denominator_measure = unit.measures[2][1]
                      /\ unit.measures[1] # <<>> =>
                            unit_data.numerator_measure = unit.measures[1][1]
                /\ ~two_part =>
                      /\ "measures" \in DOMAIN unit_data
                      /\ unit_data.measures # <<>> => unit_data.measure = unit_data.measures[1]

(***************************************************************************)
(* C21.  calculation_relationships is the merge of the summation-item       *)
(* edges of both linkbase generations: one record per edge with both        *)
(* endpoints, those of the 1.0 set first, then those of the 1.1 set, each   *)
(* record carrying its edge's own weight, order and priority; an edge with  *)
(* a missing endpoint is skipped and removes no other record.               *)
(***************************************************************************)
WellFormed(rels) ==
    SelectSeq(rels, LAMBDA rel : rel.fromModelObject # None /\ rel.toModelObject # None)

C21_CalculationMerge ==
    "calculation_relationships" \in DOMAIN result =>
        LET edges == WellFormed(model_xbrl.summationItem) \o WellFormed(model_xbrl.summationItem11)
            out == result.calculation_relationships
        IN  /\ Len(out) = Len(edges)
            /\ \A i \in 1..Len(out) :
                  /\ out[i].total_concept = edges[i].fromModelObject
                  /\ out[i].component_concept = edges[i].toModelObject
                  /\ out[i].role_uri = edges[i].linkrole
                  /\ out[i].weight = edges[i].weight
                  /\ out[i].order = edges[i].order
                  /\ out[i].priority = edges[i].priority

(***************************************************************************)
(* C22.  The period of a context record is "instant" when the instant       *)
(* marker is set, "duration" when start/end is set, "forever" when forever  *)
(* is set, and has no type when no marker is set (no error is raised); and  *)
(* every fact record has the period of the context record its context_ref   *)
(* names.                                                                   *)
(***************************************************************************)
C22_PeriodClassification ==
    "facts" \in DOMAIN result =>
        /\ Len(result.contexts) = Len(model_xbrl.contexts)
        /\ \A i \in 1..Len(result.contexts) :
              LET context == model_xbrl.contexts[i]
                  period == result.contexts[i].period
              IN  /\ context.isInstantPeriod => period.type = "instant"
                  /\ ~context.isInstantPeriod /\ context.isStartEndPeriod =>
                        period.type = "duration"
                  /\ ~context.isInstantPeriod /\ ~context.isStartEndPeriod
                        /\ context.isForeverPeriod => period.type = "forever"
                  /\ ~context.isInstantPeriod /\ ~context.isStartEndPeriod
                        /\ ~context.isForeverPeriod => "type" \notin DOMAIN period
        /\ \A f \in 1..Len(result.facts) : \A i \in 1..Len(result.contexts) :
              result.contexts[i].id = result.facts[f].context_ref =>
                  /\ "period" \in DOMAIN result.facts[f]
                  /\ result.facts[f].period = result.contexts[i].period

\* facts extracted from a document one of whose facts refers to a forever context
\* and another to a context with no period marker
C22_Witness ==
    /\ "facts" \in DOMAIN result
    /\ \E f, g \in 1..Len(result.facts) :
          /\ "period" \in DOMAIN result.facts[f]
          /\ "type" \in DOMAIN result.facts[f].period
          /\ result.facts[f].period.type = "forever"
          /\ "period" \in DOMAIN result.facts[g]
          /\ "type" \notin DOMAIN result.facts[g].period

(***************************************************************************)
(* C23.  A dimension entry that is null or cannot be resolved (a null       *)
(* value, or an explicit entry whose member concept is absent and which has *)
(* no typed value) is dropped from the context records and from the fact    *)
(* records: every emitted dimension element carries a member or a value.    *)
(***************************************************************************)
Resolvable(dim) ==
    /\ dim.qname # None
    /\ dim.value # NoneObj
    /\ \/ dim.value.memberQname # None
       \/ dim.value.typedMember # None

CarriesMemberOrValue(dim_data) ==
    \/ "member" \in DOMAIN dim_data /\ dim_data.member # None
    \/ "value" \in DOMAIN dim_data /\ dim_data.value \notin {None, "None"}

DimensionsOf(record) == IF "dimensions" \in DOMAIN record THEN record.dimensions ELSE <<>>

C23_ContextsDropUnresolved ==
    "contexts" \in DOMAIN result =>
        \A i \in 1..Len(result.contexts) :
            LET dims == DimensionsOf(result.contexts[i])
            IN  /\ Len(dims) = Len(SelectSeq(model_xbrl.contexts[i].qnameDims, Resolvable))
                /\ \A d \in 1..Len(dims) : CarriesMemberOrValue(dims[d])

C23_FactsDropUnresolved ==
    "facts" \in DOMAIN result =>
        \A f \in 1..Len(result.facts) :
            LET dims == DimensionsOf(result.facts[f])
            IN  \A d \in 1..Len(dims) : CarriesMemberOrValue(dims[d])

C23_UnresolvedDimensionsDropped ==
    C23_ContextsDropUnresolved /\ C23_FactsDropUnresolved

(***************************************************************************)
(* C24.  The aggregator runs the eleven extraction steps exactly once each  *)
(* and in the order document metadata, contexts, units, facts, concepts,    *)
(* labels, statement roles, presentation, calculation, definition, summary: *)
(* every change of the result adds the value of the one next key to the     *)
(* values of exactly the keys before it and keeps those values, and while   *)
(* a relationship walk is in progress no other step adds its value.         *)
(***************************************************************************)
FirstKeys(n) == {KeysInOrder[i] : i \in 1..n}

C24_StepsOnceInOrder ==
    [][/\ result' # result =>
            \E n \in 1..Len(KeysInOrder) :
                /\ DOMAIN result = FirstKeys(n - 1)
                /\ DOMAIN result' = FirstKeys(n)
                /\ \A k \in DOMAIN result : result'[k] = result[k]
       /\ walk # IdleWalk /\ walk' # IdleWalk => result' = result
       /\ walk' # walk => DOMAIN result \in {FirstKeys(7), FirstKeys(9)}]_vars

\* a call that has returned the values of all eleven steps, the two walks among them
C24_Witness ==
    /\ outcome = "returned"
    /\ DOMAIN ret[1] = FirstKeys(Len(KeysInOrder))
    /\ ret[1].presentation_relationships # <<>>
    /\ ret[1].definition_relationships # <<>>
    /\ ret[1].summary.total_facts > 0

(***************************************************************************)
(* C25.  The domain-member walk is done per distinct role of the root's     *)
(* outgoing edges, each role on its own.  In the walk of (root, R): every   *)
(* activation walks role R, every record it holds comes from a              *)
(* domain-member edge of role R and carries role_uri R, and every concept   *)
(* entered below the root was reached over an edge of role R.               *)
(***************************************************************************)
DmEdge(from, to, role_uri) ==
    \E j \in 1..Len(model_xbrl.domainMember) :
        /\ model_xbrl.domainMember[j].fromModelObject = from
        /\ model_xbrl.domainMember[j].toModelObject = to
        /\ model_xbrl.domainMember[j].linkrole = role_uri

C25_WalkStaysInItsRole ==
    pc = "definition_relationships" /\ stack # <<>> =>
        LET R == stack[1].role_uri
        IN  /\ stack[1].concept = walk.root
            /\ \E to \in ConceptsOf(model_xbrl.domainMember) \cup {None} : DmEdge(walk.root, to, R)
            /\ \A i \in 1..Len(stack) :
                  /\ stack[i].role_uri = R
                  /\ \A k \in 1..Len(stack[i].results) :
                        /\ stack[i].results[k].role_uri = R
                        /\ DmEdge(stack[i].results[k].from_concept,
                                  stack[i].results[k].to_concept, R)
                  /\ i > 1 => DmEdge(stack[i - 1].concept, stack[i].concept, R)

\* a walk of role R that has gone through all the edges of a concept below the
\* root, one of them an edge of another role, and has recorded an edge
C25_Witness ==
    /\ pc = "definition_relationships"
    /\ Len(stack) >= 2
    /\ stack[2].at = "loop"
    /\ stack[2].child_rels = <<>>
    /\ stack[1].results # <<>>
    /\ \E j \in 1..Len(model_xbrl.domainMember) :
          /\ model_xbrl.domainMember[j].fromModelObject = stack[2].concept
          /\ model_xbrl.domainMember[j].toModelObject # None
          /\ model_xbrl.domainMember[j].linkrole # stack[1].role_uri

(***************************************************************************)
(* C26.  The summary agrees with the rest of the document: total_facts,     *)
(* total_contexts and total_units are the lengths of the emitted facts,     *)
(* contexts and units lists, and namespaces lists the non-empty prefixes of *)
(* the facts' names, each once, in strictly ascending order.                *)
(***************************************************************************)
FactPrefixes ==
    {model_xbrl.facts[i].qname.prefix : i \in 1..Len(model_xbrl.facts)} \ {None, ""}

C26_SummaryConsistent ==
    "summary" \in DOMAIN result =>
        LET summary == result.summary
            namespaces == summary.namespaces
        IN  /\ summary.total_facts = Len(result.facts)
            /\ summary.total_contexts = Len(result.contexts)
            /\ summary.total_units = Len(result.units)
            /\ {namespaces[i] : i \in 1..Len(namespaces)} = FactPrefixes
            /\ \A i \in 1..Len(namespaces) : FirstIndex(PrefixOrder, namespaces[i]) > 0
            /\ \A i, j \in 1..Len(namespaces) :
                  i < j => FirstIndex(PrefixOrder, namespaces[i]) < FirstIndex(PrefixOrder, namespaces[j])

\* a summary of two facts that the document lists in descending order of prefix
C26_Witness ==
    /\ "summary" \in DOMAIN result
    /\ result.summary.total_facts = 2
    /\ Len(result.summary.namespaces) = 2
    /\ model_xbrl.facts[1].qname.prefix = result.summary.namespaces[2]

(***************************************************************************)
(* C27.  On every path of parse_xbrl_from_url on which the provider         *)
(* returned a model (extraction succeeded, the model has no modelDocument,  *)
(* or extraction raised) the model has been closed exactly once when the    *)
(* call returns or raises, and not before the finally clause; when the      *)
(* provider returned nothing close is never called.                         *)
(***************************************************************************)
C27_ClosedExactlyOnce ==
    /\ pc # "done" => closed = 0
    /\ pc = "done" /\ ~ProviderReturnedNothing(model_xbrl) => closed = 1
    /\ ProviderReturnedNothing(model_xbrl) => closed = 0
    /\ pc = "done" => outcome \in {"returned", "raised"}

\* a call that raised inside extraction, after some steps had run, and has ended
C27_Witness ==
    /\ pc = "done"
    /\ outcome = "raised"
    /\ ~NoModelDocument(model_xbrl)
    /\ result # EmptyDict
    /\ closed = 1

(***************************************************************************)
(* C28.  In an acyclic parent-child graph every record of                   *)
(* presentation_relationships is an edge of the relationship set, and the   *)
(* number of records of an edge (p, c) is the number of distinct paths from *)
(* the root concepts to p, one when p is itself a root: no reachable edge   *)
(* is missed and none is recorded more often than it is reached.  (The      *)
(* graph is one whose relationships all have their target concept.)         *)
(***************************************************************************)
\* the number of paths that lead from a concept without a parent to concept c
RECURSIVE PathsTo(_, _)
RECURSIVE PathsToAny(_, _)
PathsToAny(rels, S) ==
    IF S = {} THEN 0
    ELSE LET q == CHOOSE x \in S : TRUE
         IN  PathsTo(rels, q) + PathsToAny(rels, S \ {q})
PathsTo(rels, c) ==
    IF ParentsOf(rels, c) = {} THEN 1 ELSE PathsToAny(rels, ParentsOf(rels, c))

C28_RecordsCountPaths ==
    PresentationDone /\ Acyclic(model_xbrl.parentChild) /\ TargetsPresent(model_xbrl.parentChild) =>
        LET rels == model_xbrl.parentChild
            out == result.presentation_relationships
        IN  /\ \A i \in 1..Len(out) :
                  \E j \in 1..Len(rels) :
                      /\ rels[j].fromModelObject = out[i].parent_concept
                      /\ rels[j].toModelObject = out[i].child_concept
                      /\ rels[j].linkrole = out[i].role_uri
            /\ \A j \in 1..Len(rels) :
                  CountRecords(out, rels[j].fromModelObject, rels[j].toModelObject)
                      = PathsTo(rels, rels[j].fromModelObject)

\* a finished walk of an acyclic graph one of whose edges lies below a concept that
\* two paths of different lengths lead to, and was recorded at two depths
C28_Witness ==
    /\ PresentationDone
    /\ Acyclic(model_xbrl.parentChild)
    /\ TargetsPresent(model_xbrl.parentChild)
    /\ \E j \in 1..Len(model_xbrl.parentChild) :
          /\ PathsTo(model_xbrl.parentChild, model_xbrl.parentChild[j].fromModelObject) = 2
          /\ \E a, b \in 1..Len(result.presentation_relationships) :
                LET out == result.presentation_relationships
                IN  /\ out[a].parent_concept = model_xbrl.parentChild[j].fromModelObject
                    /\ out[b].parent_concept = out[a].parent_concept
                    /\ out[a].child_concept = model_xbrl.parentChild[j].toModelObject
                    /\ out[b].child_concept = out[a].child_concept
                    /\ out[a].depth < out[b].depth

(***************************************************************************)
(* C29.  Only edges whose parent can be reached from a root concept are     *)
(* recorded.  A graph, or a part of one, in which every concept has an      *)
(* incoming edge (a pure cycle A -> B -> A) has no root: its traversal      *)
(* never starts and none of its edges is in presentation_relationships.     *)
(***************************************************************************)
\* the concepts without an incoming edge, and all that lies below them
Parentless(rels) == {c \in ConceptsOf(rels) : ParentsOf(rels, c) = {}}
BelowARoot(rels) == Parentless(rels) \cup ReachFrom(rels, Parentless(rels), {})

C29_OnlyEdgesBelowARoot ==
    PresentationDone =>
        LET rels == model_xbrl.parentChild
            out == result.presentation_relationships
        IN  /\ \A i \in 1..Len(out) : out[i].parent_concept \in BelowARoot(rels)
            /\ Parentless(rels) = {} => out = <<>>

\* a finished walk of a graph that has a root, whose edge was recorded, and a
\* cycle that no root leads to
C29_Witness ==
    /\ PresentationDone
    /\ result.presentation_relationships # <<>>
    /\ \E j \in 1..Len(model_xbrl.parentChild) :
          /\ model_xbrl.parentChild[j].fromModelObject \notin BelowARoot(model_xbrl.parentChild)
          /\ model_xbrl.parentChild[j].fromModelObject
                \in DescendantsOf(model_xbrl.parentChild, model_xbrl.parentChild[j].fromModelObject)
          /\ CountRecords(result.presentation_relationships,
                          model_xbrl.parentChild[j].fromModelObject,
                          model_xbrl.parentChild[j].toModelObject) = 0

(***************************************************************************)
(* C30.  In an acyclic domain-member graph that spans several roles every   *)
(* domain-member edge of the relationship set is recorded at least once in  *)
(* definition_relationships, the edges of a hierarchy in role B included    *)
(* whose top concept has no incoming edge in role B but is a child in       *)
(* another role A.  (The graph is one whose relationships all have their    *)
(* target concept.)                                                         *)
(***************************************************************************)
DmRecorded(rel) ==
    \E i \in 1..Len(result.definition_relationships) :
        /\ result.definition_relationships[i].relationship_type = "domain-member"
        /\ result.definition_relationships[i].from_concept = rel.fromModelObject
        /\ result.definition_relationships[i].to_concept = rel.toModelObject
        /\ result.definition_relationships[i].role_uri = rel.linkrole

====
